---- MODULE Spec2Model ----
(***************************************************************************)
(* Verification model of the Telegram text-to-speech bot:                  *)
(*   - admission control (src/redis/ratelimit.ts, middleware/ratelimit.ts) *)
(*   - the job queue and its worker (queue.ts, webhookBot.ts)              *)
(*   - multi-chunk speech generation (openaiService.ts)                    *)
(* Each subsystem has its own specification over the shared variables.     *)
(***************************************************************************)
EXTENDS Integers, Sequences, FiniteSets, TLC

VARIABLES
    \* ---- admission control ----
    minuteNow,      \* Math.floor(Date.now() / 60000), as a bucket index
    dayNow,         \* new Date().toISOString().split('T')[0], as a day index
    minStore,       \* redis: tts:rate:min:{chatId}:{minuteKey}
    dayStore,       \* redis: tts:rate:day:{chatId}:{dateKey}
    notifiedStore,  \* redis: tts:rate:notified:{chatId}:{dateKey}
    req,            \* the middleware invocations in flight, one per slot
    started,        \* number of requests that entered the middleware
    calls,          \* history: incrementUsage calls per owner and minute key
    notices,        \* history: daily notices sent per owner and day of sending
    admitted        \* history: updates the middleware passed on with next()

rateVars == <<minuteNow, dayNow, minStore, dayStore, notifiedStore, req,
              started, calls, notices, admitted>>

VARIABLES
    \* ---- job queue and worker ----
    handler,        \* the queueTTS / queueDocument / queueVoice call in progress
    jobs,           \* the jobs of the 'tts-jobs' queue, by job id
    slot,           \* the job each of the worker's concurrent slots holds
    msgs,           \* the status messages of the chat, by message id
    msgJob,         \* history: the job a status message was posted for or by
    delIssued,      \* history: messages for which deleteMessage was called
    runs,           \* history: how often the processor body started per job
    audioSent,      \* history: sendVoice calls that succeeded, per job
    errorSent,      \* history: 'Error: ...' messages sent, per job
    nextJob,        \* the next job id the queue assigns
    nextMsg         \* the next message_id the chat assigns

queueVars == <<handler, jobs, slot, msgs, msgJob, delIssued, runs,
               audioSent, errorSent, nextJob, nextMsg>>

VARIABLES
    \* ---- OpenAIService.generateSpeech ----
    clock,          \* Date.now(), in milliseconds
    fs,             \* os.tmpdir(): directory name -> file name -> content
    gs              \* the generateSpeech calls, one per concurrent job

speechVars == <<clock, fs, gs>>

VARIABLES
    \* ---- one request to the speech endpoint and its retries ----
    syn             \* the call: client generation, position, attempts, log

retryVars == <<syn>>

VARIABLES
    \* ---- the status message calls of the worker ----
    tgEdits,        \* whether bot.api.editMessageText succeeds or rejects
    statusThrew,    \* history: jobs whose processor a status call threw out of
    statusTexts     \* history: per job, the number of chunks of its text and
                    \* the texts its status message was edited to, where a
                    \* specification follows them

statusVars == <<tgEdits, statusThrew, statusTexts>>

VARIABLES
    \* ---- the owners' preferences and the jobs that use them ----
    prefStore,      \* redis: the hash tts:prefs:{chatId}, absent fields as None
    pjobs           \* the tts jobs: data, position, preferences seen and used

prefVars == <<prefStore, pjobs>>

VARIABLES
    \* ---- OpenAIService.splitTextIntoChunks ----
    text,           \* the argument, a sequence of characters
    chunks,         \* the array the call returned
    split           \* whether the call has returned

chunkVars == <<text, chunks, split>>

VARIABLES
    \* ---- redis/invites.ts ----
    invites,        \* redis: the hash tts:invite:{code}
    invIndex,       \* redis: the set tts:invites:by:{createdBy}
    users,          \* redis: the chats that have a tts:user:{chatId} record
    icalls,         \* the createInvite / redeemInvite / revokeInvite calls
    issued,         \* history: per code, the creator and uses it was made with
    redeemed,       \* history: redeemInvite calls that returned true, per code
    gone            \* history: how a code was deleted

inviteVars == <<invites, invIndex, users, icalls, issued, redeemed, gone>>

VARIABLES
    \* ---- the keys of redis/ratelimit.ts and their expiry ----
    now,            \* the wall clock, in seconds
    ttlStore,       \* redis: the live rate keys, with value and expiry time
    ucall,          \* the incrementUsage / markNotified call in progress
    incs            \* history: per kind of key, the bucket written last,
                    \* when, and what was written to it

expiryVars == <<now, ttlStore, ucall, incs>>

VARIABLES
    \* ---- the webhook endpoint of webhookBot.ts ----
    processedUpdates,   \* the Set of update ids, in insertion order
    posts,              \* the POST requests being served
    handed,             \* history: per update id, how often it was handed
                        \* to the bot handlers
    threw,              \* history: the update ids whose handling threw
    posted              \* history: the requests received so far

updateVars == <<processedUpdates, posts, handed, threw, posted>>

\* the state that no step of the queue and the worker touches
apartVars == <<retryVars, prefVars, chunkVars, inviteVars, expiryVars,
               updateVars>>

moreVars == <<apartVars, statusVars>>

vars == <<rateVars, queueVars, speechVars, moreVars>>

\* what the actions of one subsystem leave alone
othersOfRate == <<queueVars, speechVars, moreVars>>
othersOfQueue == <<rateVars, speechVars, moreVars>>
othersOfSpeech == <<rateVars, queueVars, moreVars>>
othersOfRetry == <<rateVars, queueVars, speechVars, statusVars, prefVars,
                   chunkVars, inviteVars, expiryVars, updateVars>>
othersOfPrefs == <<rateVars, queueVars, speechVars, statusVars, retryVars,
                   chunkVars, inviteVars, expiryVars, updateVars>>
othersOfChunks == <<rateVars, queueVars, speechVars, statusVars, retryVars,
                    prefVars, inviteVars, expiryVars, updateVars>>
othersOfInvites == <<rateVars, queueVars, speechVars, statusVars, retryVars,
                     prefVars, chunkVars, expiryVars, updateVars>>
othersOfExpiry == <<rateVars, queueVars, speechVars, statusVars, retryVars,
                    prefVars, chunkVars, inviteVars, updateVars>>
othersOfUpdates == <<rateVars, queueVars, speechVars, statusVars, retryVars,
                     prefVars, chunkVars, inviteVars, expiryVars>>
\* what a process function that edits the status message leaves alone
othersOfProcess == <<rateVars, speechVars, apartVars, tgEdits>>

-----------------------------------------------------------------------------
(* Bounds of the model *)
MaxRequests == 3
MaxJobs == 2
MaxMsgs == 2
MaxChunks == 2
\* the requests of a burst that are admitted one after the other
MaxBurst == 13
\* the calls of incrementUsage and markNotified that are followed, and how
\* far the clock is moved: in steps of half a minute and of half a day
MaxUsageCalls == 2
MaxHalfMinutes == 3
MaxHalfDays == 3
\* the update ids Telegram delivers, the POST requests that are followed, and
\* the size the processed set is cut back at, scaled down from 1000
MaxUpdates == 3
MaxPosts == 5
KeptUpdates == 2
\* the longest text given to splitTextIntoChunks, and the chunk length limit
\* the calls are checked with, scaled down from maxChunkLength
MaxTextLen == 7
ChunkLimit == 5
\* the most uses an invite is created with
MaxUses == 2

\* chat ids, and the minute and day buckets the clock passes through
Owners == {1, 2}
MinuteKeys == {0, 1}
DateKeys == {0, 1}
\* the middleware invocations that may overlap
Slots == {1, 2}

\* message lengths the requests carry (ctx.message?.text || '').length:
\* 0 for a voice message or a document
CharCounts == {0, 200, 500}

-----------------------------------------------------------------------------
(* src/redis/ratelimit.ts *)
RATE_LIMIT_REQUESTS_PER_MINUTE == 10
RATE_LIMIT_CHARS_PER_DAY == 20000

\* redis.get of a key that does not exist
Null == -1

\* what earlier requests of the current buckets may have left in the store:
\* nothing, or 9 requests of 2200 characters each
InitUsage == {[minute |-> Null, day |-> Null], [minute |-> 9, day |-> 19800]}

\* what the day before may have left in the store (the keys live 48 hours):
\* a day counter over the budget and the notified marker
Yesterday == [day |-> 20300, notified |-> 1]

\* mutation of Get: the key without the bucket in it
GetFirstBucket(store, chatId, key) == store[chatId][0]

\* redis.get(key)
Get(store, chatId, key) == store[chatId][key]

\* mutation of IncrBy: a key without the chat id in it
IncrByShared(store, chatId, key, n) ==
    [o \in DOMAIN store |->
        [store[o] EXCEPT ![key] = IF @ = Null THEN n ELSE @ + n]]

\* mutation of IncrBy: SET in place of INCRBY
IncrByOverwrite(store, chatId, key, n) == [store EXCEPT ![chatId][key] = n]

\* redis INCRBY: a missing key counts as 0
IncrBy(store, chatId, key, n) ==
    [store EXCEPT ![chatId][key] = IF @ = Null THEN n ELSE @ + n]

\* parseInt of the decimal string redis returns
parseInt(v) == v

\* mutation of MinuteLimited: '>' in place of '>='
MinuteLimitedStrict(minuteCount) ==
    minuteCount # Null /\ parseInt(minuteCount) > RATE_LIMIT_REQUESTS_PER_MINUTE

\* minuteCount && parseInt(minuteCount) >= RATE_LIMIT_REQUESTS_PER_MINUTE
MinuteLimited(minuteCount) ==
    minuteCount # Null /\ parseInt(minuteCount) >= RATE_LIMIT_REQUESTS_PER_MINUTE

\* dayCount ? parseInt(dayCount) : 0
CurrentDayChars(dayCount) == IF dayCount # Null THEN parseInt(dayCount) ELSE 0

\* mutation of WouldExceedDayLimit: '>=' in place of '>'
WouldReachDayLimit(dayCount, charCount) ==
    CurrentDayChars(dayCount) + charCount >= RATE_LIMIT_CHARS_PER_DAY

WouldExceedDayLimit(dayCount, charCount) ==
    CurrentDayChars(dayCount) + charCount > RATE_LIMIT_CHARS_PER_DAY

\* RateLimitResult; a field the code leaves out is "undefined"
ResultMinuteLimit ==
    [allowed |-> FALSE, reason |-> "minute_limit", shouldNotify |-> "undefined"]
\* mutation of ResultDayLimit: shouldNotify without the marker
ResultDayLimitUnmarked(hasNotified) ==
    [allowed |-> TRUE, reason |-> "day_limit", shouldNotify |-> "true"]
ResultDayLimit(hasNotified) ==
    [allowed |-> TRUE, reason |-> "day_limit",
     shouldNotify |-> IF hasNotified = Null THEN "true" ELSE "false"]
ResultAllowed ==
    [allowed |-> TRUE, reason |-> "undefined", shouldNotify |-> "undefined"]
NoResult ==
    [allowed |-> FALSE, reason |-> "undefined", shouldNotify |-> "undefined"]

\* seen: history, the owner's incrementUsage calls of the bucket at the
\* moment checkRateLimit read the minute counter
\* counted: history, the incrementUsage calls made for this request
IdleReq == [pc |-> "idle", chatId |-> 0, charCount |-> 0,
            dateKey |-> 0, seen |-> 0, counted |-> 0, result |-> NoResult]

-----------------------------------------------------------------------------
(* src/middleware/ratelimit.ts: rateLimitMiddleware, one step per await *)

\* mutation of CheckMinute: the check counts the request as it reads
CheckMinuteCounting(r) ==
    /\ req[r].pc = "idle"
    /\ \A q \in Slots : q < r => req[q].pc # "idle"
    /\ started < MaxRequests
    /\ \E chatId \in Owners, charCount \in CharCounts :
        LET minuteCount == Get(minStore, chatId, minuteNow)
            limited == MinuteLimited(minuteCount)
        IN /\ req' = [req EXCEPT ![r] =
                        [pc |-> IF limited THEN "blocked" ELSE "getDay",
                         chatId |-> chatId, charCount |-> charCount,
                         dateKey |-> dayNow,
                         seen |-> calls[chatId][minuteNow], counted |-> 0,
                         result |-> IF limited THEN ResultMinuteLimit ELSE NoResult]]
           /\ minStore' = IncrBy(minStore, chatId, minuteNow, 1)
    /\ started' = started + 1
    /\ UNCHANGED <<minuteNow, dayNow, dayStore, notifiedStore, calls, notices, admitted>>
    /\ UNCHANGED othersOfRate

\* the middleware is entered and checkRateLimit computes its keys and
\* reads the minute counter; a blocked request returns at once. At most cap
\* requests enter, from the chats and with the message lengths given
CheckMinuteOf(r, cap, chatIds, charCounts) ==
    /\ req[r].pc = "idle"
    /\ \A q \in Slots : q < r => req[q].pc # "idle"
    /\ started < cap
    /\ \E chatId \in chatIds, charCount \in charCounts :
        LET minuteCount == Get(minStore, chatId, minuteNow)
            limited == MinuteLimited(minuteCount)
        IN req' = [req EXCEPT ![r] =
                        [pc |-> IF limited THEN "blocked" ELSE "getDay",
                         chatId |-> chatId, charCount |-> charCount,
                         dateKey |-> dayNow,
                         seen |-> calls[chatId][minuteNow], counted |-> 0,
                         result |-> IF limited THEN ResultMinuteLimit ELSE NoResult]]
    /\ started' = started + 1
    /\ UNCHANGED <<minuteNow, dayNow, minStore, dayStore, notifiedStore, calls, notices, admitted>>
    /\ UNCHANGED othersOfRate

CheckMinute(r) == CheckMinuteOf(r, MaxRequests, Owners, CharCounts)

\* checkRateLimit reads the day counter
CheckDay(r) ==
    /\ req[r].pc = "getDay"
    /\ LET dayCount == Get(dayStore, req[r].chatId, req[r].dateKey)
       IN req' = [req EXCEPT ![r] =
                    IF WouldExceedDayLimit(dayCount, req[r].charCount)
                    THEN [@ EXCEPT !.pc = "getNotified"]
                    ELSE [@ EXCEPT !.pc = "incr", !.result = ResultAllowed]]
    /\ UNCHANGED <<minuteNow, dayNow, minStore, dayStore, notifiedStore,
                   started, calls, notices, admitted>>
    /\ UNCHANGED othersOfRate

\* checkRateLimit reads the notified marker and returns day_limit
CheckNotified(r) ==
    /\ req[r].pc = "getNotified"
    /\ LET hasNotified == Get(notifiedStore, req[r].chatId, req[r].dateKey)
           result == ResultDayLimit(hasNotified)
       IN req' = [req EXCEPT ![r] =
                    [@ EXCEPT !.pc = IF result.shouldNotify = "true"
                                     THEN "notice" ELSE "incr",
                              !.result = result]]
    /\ UNCHANGED <<minuteNow, dayNow, minStore, dayStore, notifiedStore,
                   started, calls, notices, admitted>>
    /\ UNCHANGED othersOfRate

\* mutation of ReplyBlocked: the reply without the return after it
ReplyBlockedNoReturn(r) ==
    /\ req[r].pc = "blocked"
    /\ req' = [req EXCEPT ![r].pc = "incr"]
    /\ UNCHANGED <<minuteNow, dayNow, minStore, dayStore, notifiedStore,
                   started, calls, notices, admitted>>
    /\ UNCHANGED othersOfRate

\* if (!result.allowed && reason === 'minute_limit') { reply; return }
ReplyBlocked(r) ==
    /\ req[r].pc = "blocked"
    /\ req' = [req EXCEPT ![r] = IdleReq]
    /\ UNCHANGED <<minuteNow, dayNow, minStore, dayStore, notifiedStore,
                   started, calls, notices, admitted>>
    /\ UNCHANGED othersOfRate

\* if (result.shouldNotify) await ctx.reply('Notice: ...')
SendNotice(r) ==
    /\ req[r].pc = "notice"
    /\ notices' = [notices EXCEPT ![req[r].chatId][dayNow] = @ + 1]
    /\ req' = [req EXCEPT ![r].pc = "mark"]
    /\ UNCHANGED <<minuteNow, dayNow, minStore, dayStore, notifiedStore,
                   started, calls, admitted>>
    /\ UNCHANGED othersOfRate

\* markNotified(chatId): the date key is computed when it is called
markNotified(r) ==
    /\ req[r].pc = "mark"
    /\ notifiedStore' = [notifiedStore EXCEPT ![req[r].chatId][dayNow] = 1]
    /\ req' = [req EXCEPT ![r].pc = "incr"]
    /\ UNCHANGED <<minuteNow, dayNow, minStore, dayStore,
                   started, calls, notices, admitted>>
    /\ UNCHANGED othersOfRate

\* incrementUsage(chatId, charCount): INCR and INCRBY in one pipeline, on the
\* keys of the moment of the call
incrementUsage(r) ==
    /\ req[r].pc = "incr"
    /\ minStore' = IncrBy(minStore, req[r].chatId, minuteNow, 1)
    /\ dayStore' = IncrBy(dayStore, req[r].chatId, dayNow, req[r].charCount)
    /\ calls' = [calls EXCEPT ![req[r].chatId][minuteNow] = @ + 1]
    /\ req' = [req EXCEPT ![r].pc = "next", ![r].counted = @ + 1]
    /\ UNCHANGED <<minuteNow, dayNow, notifiedStore, started, notices, admitted>>
    /\ UNCHANGED othersOfRate

\* getUsage(chatId): both keys of the moment of the call are read, a missing
\* key reads as 0
getUsage(chatId) ==
    LET minuteCount == Get(minStore, chatId, minuteNow)
        dayCount == Get(dayStore, chatId, dayNow)
    IN  [minuteRequests |-> IF minuteCount # Null THEN parseInt(minuteCount) ELSE 0,
         dayChars |-> IF dayCount # Null THEN parseInt(dayCount) ELSE 0]

\* return next(), with the handler behind the middleware left out: it runs
\* and returns
ReturnNext(r) ==
    /\ req[r].pc = "next"
    /\ req' = [req EXCEPT ![r] = IdleReq]
    /\ admitted' = admitted + 1
    /\ UNCHANGED <<minuteNow, dayNow, minStore, dayStore, notifiedStore,
                   started, calls, notices>>
    /\ UNCHANGED othersOfRate

\* the wall clock enters the next minute, which may be the first of a new day
TickMinute ==
    /\ minuteNow + 1 \in MinuteKeys
    /\ minuteNow' = minuteNow + 1
    /\ \/ dayNow' = dayNow
       \/ dayNow + 1 \in DateKeys /\ dayNow' = dayNow + 1
    /\ UNCHANGED <<minStore, dayStore, notifiedStore, req,
                   started, calls, notices, admitted>>
    /\ UNCHANGED othersOfRate

\* the store as earlier requests of the current buckets, and of the day
\* before, may have left it (up to the naming of the owners; a day before is
\* there when all owners have used the bot)
RateInit ==
    /\ minuteNow = 0
    /\ dayNow \in DateKeys
    /\ \E f \in [Owners -> InitUsage] :
        /\ \A o, p \in Owners : (o < p /\ f[p].day # Null) => f[o].day # Null
        /\ dayNow > 0 => \A o \in Owners : f[o].day # Null
        /\ minStore = [o \in Owners |->
                         [m \in MinuteKeys |-> IF m = 0 THEN f[o].minute ELSE Null]]
        /\ calls = [o \in Owners |->
                      [m \in MinuteKeys |->
                         IF m = 0 /\ f[o].minute # Null THEN f[o].minute ELSE 0]]
        /\ dayStore = [o \in Owners |->
                         [d \in DateKeys |->
                            IF d = dayNow THEN f[o].day
                            ELSE IF d < dayNow /\ f[o].day # Null
                                 THEN Yesterday.day ELSE Null]]
        /\ notifiedStore = [o \in Owners |->
                              [d \in DateKeys |->
                                 IF d < dayNow /\ f[o].day # Null
                                 THEN Yesterday.notified ELSE Null]]
    /\ req = [r \in Slots |-> IdleReq]
    /\ started = 0
    /\ notices = [o \in Owners |-> [d \in DateKeys |-> 0]]
    /\ admitted = 0

RateNext ==
    \/ \E r \in Slots : CheckMinute(r)
    \/ \E r \in Slots : CheckDay(r)
    \/ \E r \in Slots : CheckNotified(r)
    \/ \E r \in Slots : ReplyBlocked(r)
    \/ \E r \in Slots : SendNotice(r)
    \/ \E r \in Slots : markNotified(r)
    \/ \E r \in Slots : incrementUsage(r)
    \/ \E r \in Slots : ReturnNext(r)
    \/ TickMinute

-----------------------------------------------------------------------------
(* queue.ts and webhookBot.ts: the queue, its producers and the worker *)

\* new Worker(..., { concurrency: 3 })
WorkerConcurrency == 3
\* mutation of WorkerSlots: one slot more than the concurrency
WorkerSlotsExtra == 1..(WorkerConcurrency + 1)
WorkerSlots == 1..WorkerConcurrency

\* a backlog the worker finds in the 'tts-jobs' queue when it starts: one
\* job more than it has slots
PoolSize == WorkerConcurrency + 1

Max(a, b) == IF a >= b THEN a ELSE b

\* the ids of the jobs of a backlog and of the jobs added in a run
JobIds == 1..Max(MaxJobs, PoolSize)
\* the message ids of their status messages
MsgIds == 1..Max(MaxMsgs, PoolSize)

\* JobData['type']
JobTypes == {"tts", "ttsai", "document", "voice"}

\* mutation of JobAttempts: jobs added with { attempts: 3 }
JobAttemptsRetry == 3

\* queue.add(name, data) without options: a job is attempted once
JobAttempts == 1

NoJob == [state |-> "none", type |-> "none", statusMsgId |-> 0,
          pc |-> "none", newStatus |-> 0, attemptsMade |-> 0]

\* the first await of the process function chosen by the switch
StartPc(type) ==
    CASE type \in {"tts", "ttsai"} -> "gen"
      [] type = "document" -> "doc"
      [] type = "voice" -> "transcribe"
      [] OTHER -> "break"

Active(j) == jobs[j].state = "active"
SlotOf(j) == CHOOSE w \in WorkerSlots : slot[w] = j

\* bot.api.deleteMessage(chatId, msgId): gone, or the call fails
DeleteOutcomes(m) ==
    IF msgs[m] = "live"
    THEN {[msgs EXCEPT ![m] = "deleted"], msgs}
    ELSE {msgs}

\* mutation of Finish: the slot of a finished job is not given back
FinishKeepsSlot(j, ok) ==
    /\ jobs' = [jobs EXCEPT ![j] =
                 [@ EXCEPT !.state = IF ok THEN "completed"
                                     ELSE IF jobs[j].attemptsMade + 1 < JobAttempts
                                          THEN "waiting" ELSE "failed",
                           !.pc = "none", !.newStatus = 0,
                           !.attemptsMade = @ + 1]]
    /\ slot' = slot

\* the job leaves the worker: completed, or failed (or retried while
\* attempts remain)
Finish(j, ok) ==
    /\ jobs' = [jobs EXCEPT ![j] =
                 [@ EXCEPT !.state = IF ok THEN "completed"
                                     ELSE IF jobs[j].attemptsMade + 1 < JobAttempts
                                          THEN "waiting" ELSE "failed",
                           !.pc = "none", !.newStatus = 0,
                           !.attemptsMade = @ + 1]]
    /\ slot' = [slot EXCEPT ![SlotOf(j)] = 0]

\* the updates the five rate-limited routes receive; the last five are the
\* ones their handlers turn away
UpdateKinds == {"tts", "ttsai", "text", "voice", "document",
                "tts_empty", "ttsai_empty", "unknown_command",
                "unsupported_document", "oversized_document"}

\* ctx.message.text is undefined for a voice message and for a document
KindsOf(charCount) ==
    IF charCount = 0
    THEN {"voice", "document", "unsupported_document", "oversized_document"}
    ELSE {"tts", "ttsai", "text", "tts_empty", "ttsai_empty", "unknown_command"}

\* the type of the job the handler of an update enqueues; "none" when the
\* handler replies with a usage or format message and returns
JobTypeOf(kind) ==
    CASE kind \in {"tts", "text"} -> "tts"
      [] kind = "ttsai" -> "ttsai"
      [] kind = "voice" -> "voice"
      [] kind = "document" -> "document"
      [] OTHER -> "none"

\* counted: history, the incrementUsage calls made for the handler's update
IdleHandler == [pc |-> "idle", type |-> "none", statusMsgId |-> 0, counted |-> 0]

\* the handler runs up to its first await: the reply that turns the update
\* away, or the reply that posts the status message
Route(kind, counted) ==
    [pc |-> IF JobTypeOf(kind) = "none" THEN "reject" ELSE "post",
     type |-> JobTypeOf(kind), statusMsgId |-> 0, counted |-> counted]

\* return next(): the middleware hands the update to the handler of its route
CallNext(r) ==
    /\ req[r].pc = "next"
    /\ handler.pc = "idle"
    /\ \E kind \in KindsOf(req[r].charCount) :
        handler' = Route(kind, req[r].counted)
    /\ req' = [req EXCEPT ![r] = IdleReq]
    /\ admitted' = admitted + 1
    /\ UNCHANGED <<minuteNow, dayNow, minStore, dayStore, notifiedStore,
                   started, calls, notices>>
    /\ UNCHANGED <<jobs, slot, msgs, msgJob, delIssued, runs,
                   audioSent, errorSent, nextJob, nextMsg>>
    /\ UNCHANGED <<speechVars, moreVars>>

\* an update that passed the middleware reaches queueTTS, queueDocument or
\* queueVoice (the middleware's own steps left out)
UpdatePasses ==
    /\ handler.pc = "idle"
    /\ nextMsg <= MaxMsgs
    /\ nextJob <= MaxJobs
    /\ \E kind \in {"tts", "ttsai", "voice", "document"} :
        handler' = Route(kind, 1)
    /\ admitted' = admitted + 1
    /\ UNCHANGED <<minuteNow, dayNow, minStore, dayStore, notifiedStore, req,
                   started, calls, notices>>
    /\ UNCHANGED <<jobs, slot, msgs, msgJob, delIssued, runs,
                   audioSent, errorSent, nextJob, nextMsg>>
    /\ UNCHANGED <<speechVars, moreVars>>

\* return ctx.reply('Usage: /tts <text>') and the like: no job is enqueued
HandlerTurnAway ==
    /\ handler.pc = "reject"
    /\ handler' = IdleHandler
    /\ UNCHANGED <<jobs, slot, msgs, msgJob, delIssued, runs,
                   audioSent, errorSent, nextJob, nextMsg>>
    /\ UNCHANGED othersOfQueue

\* queueTTS / queueDocument / queueVoice: const statusMsg = await ctx.reply(..)
HandlerPostStatus ==
    /\ handler.pc = "post"
    /\ nextMsg <= MaxMsgs
    /\ nextJob <= MaxJobs
    /\ handler' = [handler EXCEPT !.pc = "add", !.statusMsgId = nextMsg]
    /\ msgs' = [msgs EXCEPT ![nextMsg] = "live"]
    /\ nextMsg' = nextMsg + 1
    /\ UNCHANGED <<jobs, slot, msgJob, delIssued, runs,
                   audioSent, errorSent, nextJob>>
    /\ UNCHANGED othersOfQueue

\* await this.queue.add(name, { type, chatId, ..., statusMsgId })
HandlerQueueAdd ==
    /\ handler.pc = "add"
    /\ \/ /\ nextJob <= MaxJobs
          /\ jobs' = [jobs EXCEPT ![nextJob] =
                [state |-> "waiting", type |-> handler.type,
                 statusMsgId |-> handler.statusMsgId,
                 pc |-> "none", newStatus |-> 0, attemptsMade |-> 0]]
          /\ msgJob' = [msgJob EXCEPT ![handler.statusMsgId] = nextJob]
          /\ nextJob' = nextJob + 1
       \/ \* the store is unavailable: add throws, no job exists
          UNCHANGED <<jobs, msgJob, nextJob>>
    /\ handler' = IdleHandler
    /\ UNCHANGED <<slot, msgs, delIssued, runs,
                   audioSent, errorSent, nextMsg>>
    /\ UNCHANGED othersOfQueue

\* the worker takes a waiting job into a free slot and calls the processor
Claim(w, j) ==
    /\ slot[w] = 0
    /\ \A v \in WorkerSlots : v < w => slot[v] # 0
    /\ jobs[j].state = "waiting"
    /\ jobs' = [jobs EXCEPT ![j] =
                 [@ EXCEPT !.state = "active", !.pc = StartPc(jobs[j].type)]]
    /\ slot' = [slot EXCEPT ![w] = j]
    /\ runs' = [runs EXCEPT ![j] = @ + 1]
    /\ UNCHANGED <<handler, msgs, msgJob, delIssued, audioSent, errorSent,
                   nextJob, nextMsg>>
    /\ UNCHANGED othersOfQueue

\* mutation of updateStatus: without the .catch(() => {})
updateStatusUncaught(msgId) ==
    IF msgId # 0 /\ tgEdits = "failing" THEN "throws" ELSE "returns"

\* if (msgId) await bot.api.editMessageText(chatId, msgId, text).catch(() => {})
updateStatus(msgId) ==
    IF msgId # 0 /\ tgEdits = "failing" THEN "returns" ELSE "returns"

\* the text of an edit of the status message; k and total are the numbers
\* of a chunk progress text
StatusText(message, k, total) ==
    [message |-> message, k |-> k, total |-> total]

\* processDocument: the three texts it sets before it generates speech
StageTexts ==
    <<StatusText("Downloading document...", 0, 0),
      StatusText("Parsing document...", 0, 0),
      StatusText("Extracted N characters. Generating audio...", 0, 0)>>

\* generateSpeech's calls of onProgress for a text of n chunks: none when
\* the one chunk is synthesized directly, otherwise one before each chunk
\* and one before the concatenation
OnProgressCalls(n) ==
    IF n = 1 THEN <<>>
    ELSE [k \in 1..(n + 1) |->
            IF k <= n THEN StatusText("Generating audio k/n...", k, n)
            ELSE StatusText("Concatenating audio...", n, n)]

\* mutation of ProgressTexts: the loop for any number of chunks, and no test
\* of total in the callback
ProgressTextsOfEveryChunk(n) ==
    [k \in 1..(n + 1) |->
        IF k <= n THEN StatusText("Generating audio k/n...", k, n)
        ELSE StatusText("Concatenating audio...", n, n)]

\* onProgress of processTTS and processDocument:
\* if (total > 1) await updateStatus(bot, chatId, statusMsgId, message)
ProgressTexts(n) == SelectSeq(OnProgressCalls(n), LAMBDA p : p.total > 1)

\* history: the job's text has total chunks (0: not known), and the edits
\* given were made to its status message
EditsNoted(j, total, texts) ==
    IF statusTexts[j].followed
    THEN [statusTexts EXCEPT
            ![j].total = total,
            ![j].texts = IF jobs[j].statusMsgId # 0 /\ tgEdits = "ok"
                         THEN @ \o texts ELSE @]
    ELSE statusTexts

\* processDocument: updateStatus, getFile, fetch, updateStatus, detectFormat,
\* parseBuffer, updateStatus
ParseDocument(j) ==
    /\ Active(j) /\ jobs[j].pc = "doc"
    /\ IF updateStatus(jobs[j].statusMsgId) = "throws"
       THEN /\ jobs' = [jobs EXCEPT ![j].pc = "catchDel"]
            /\ statusThrew' = statusThrew \cup {j}
            /\ UNCHANGED statusTexts
       ELSE /\ \E ok \in BOOLEAN, p \in 1..Len(StageTexts) :
                 /\ ok => p = Len(StageTexts)
                 /\ ~ok => p < Len(StageTexts)
                 /\ jobs' = [jobs EXCEPT ![j].pc = IF ok THEN "gen" ELSE "catchDel"]
                 /\ statusTexts' = EditsNoted(j, 0, SubSeq(StageTexts, 1, p))
            /\ UNCHANGED statusThrew
    /\ UNCHANGED <<handler, slot, msgs, msgJob, delIssued, runs,
                   audioSent, errorSent, nextJob, nextMsg>>
    /\ UNCHANGED othersOfProcess

\* processTTS / processDocument: await core.generateSpeech(...), whose
\* onProgress calls updateStatus when the text has more than one chunk
GenerateSpeech(j) ==
    /\ Active(j) /\ jobs[j].pc = "gen"
    /\ \E total \in 1..2 :
        LET texts == ProgressTexts(total)
        IN  IF texts # <<>> /\ updateStatus(jobs[j].statusMsgId) = "throws"
            THEN /\ jobs' = [jobs EXCEPT ![j].pc = "catchDel"]
                 /\ statusThrew' = statusThrew \cup {j}
                 /\ UNCHANGED statusTexts
            ELSE /\ \E ok \in BOOLEAN, p \in 0..Len(texts) :
                      \* a failure comes after the first call of onProgress
                      /\ ok => p = Len(texts)
                      /\ ~ok => (p >= 1 \/ texts = <<>>)
                      /\ jobs' = [jobs EXCEPT ![j].pc =
                                    IF ok THEN "del" ELSE "catchDel"]
                      /\ statusTexts' =
                           EditsNoted(j, total, SubSeq(texts, 1, p))
                 /\ UNCHANGED statusThrew
    /\ UNCHANGED <<handler, slot, msgs, msgJob, delIssued, runs,
                   audioSent, errorSent, nextJob, nextMsg>>
    /\ UNCHANGED othersOfProcess

\* processVoice: getFile and core.transcribeAudio
Transcribe(j) ==
    /\ Active(j) /\ jobs[j].pc = "transcribe"
    /\ \E ok \in BOOLEAN :
        jobs' = [jobs EXCEPT ![j].pc = IF ok THEN "del" ELSE "catchDel"]
    /\ UNCHANGED <<handler, slot, msgs, msgJob, delIssued, runs,
                   audioSent, errorSent, nextJob, nextMsg>>
    /\ UNCHANGED othersOfQueue

\* await deleteStatus(bot, chatId, statusMsgId) on the success path
DeleteStatus(j) ==
    /\ Active(j) /\ jobs[j].pc = "del"
    /\ LET m == jobs[j].statusMsgId
       IN IF m # 0
          THEN /\ msgs' \in DeleteOutcomes(m)
               /\ delIssued' = delIssued \cup {m}
          ELSE UNCHANGED <<msgs, delIssued>>
    /\ jobs' = [jobs EXCEPT ![j].pc =
                 IF jobs[j].type = "voice" THEN "transcript" ELSE "send"]
    /\ UNCHANGED <<handler, slot, msgJob, runs,
                   audioSent, errorSent, nextJob, nextMsg>>
    /\ UNCHANGED othersOfQueue

\* await bot.api.sendVoice(chatId, audio): delivered, or it throws
SendVoice(j) ==
    /\ Active(j) /\ jobs[j].pc = "send"
    /\ \/ /\ audioSent' = [audioSent EXCEPT ![j] = @ + 1]
          /\ Finish(j, TRUE)
       \/ /\ jobs' = [jobs EXCEPT ![j].pc = "catchDel"]
          /\ UNCHANGED <<audioSent, slot>>
    /\ UNCHANGED <<handler, msgs, msgJob, delIssued, runs,
                   errorSent, nextJob, nextMsg>>
    /\ UNCHANGED othersOfQueue

\* processVoice: await bot.api.sendMessage(chatId, `Transcription: ...`)
SendTranscription(j) ==
    /\ Active(j) /\ jobs[j].pc = "transcript"
    /\ \E ok \in BOOLEAN :
        jobs' = [jobs EXCEPT ![j].pc = IF ok THEN "post" ELSE "catchDel"]
    /\ UNCHANGED <<handler, slot, msgs, msgJob, delIssued, runs,
                   audioSent, errorSent, nextJob, nextMsg>>
    /\ UNCHANGED othersOfQueue

\* processVoice: statusMsg = await bot.api.sendMessage(chatId, 'Converting..')
PostFollowUpStatus(j) ==
    /\ Active(j) /\ jobs[j].pc = "post"
    /\ \/ /\ nextMsg <= MaxMsgs
          /\ msgs' = [msgs EXCEPT ![nextMsg] = "live"]
          /\ msgJob' = [msgJob EXCEPT ![nextMsg] = j]
          /\ jobs' = [jobs EXCEPT ![j].pc = "add", ![j].newStatus = nextMsg]
          /\ nextMsg' = nextMsg + 1
       \/ /\ jobs' = [jobs EXCEPT ![j].pc = "catchDel"]
          /\ UNCHANGED <<msgs, msgJob, nextMsg>>
    /\ UNCHANGED <<handler, slot, delIssued, runs,
                   audioSent, errorSent, nextJob>>
    /\ UNCHANGED othersOfQueue

\* mutation of FollowUpType: the transcription is queued as plain text
FollowUpTypePlain == "tts"

\* processVoice: queue.add(..., { type: 'ttsai', ... })
FollowUpType == "ttsai"

\* processVoice: await queue.add(name, { type: 'ttsai', ..., statusMsgId })
AddFollowUp(j) ==
    /\ Active(j) /\ jobs[j].pc = "add"
    /\ \/ /\ nextJob <= MaxJobs
          /\ LET added == [jobs EXCEPT ![nextJob] =
                    [state |-> "waiting", type |-> FollowUpType,
                     statusMsgId |-> jobs[j].newStatus,
                     pc |-> "none", newStatus |-> 0, attemptsMade |-> 0]]
             IN jobs' = [added EXCEPT ![j] =
                    [@ EXCEPT !.state = "completed", !.pc = "none",
                              !.newStatus = 0, !.attemptsMade = @ + 1]]
          /\ slot' = [slot EXCEPT ![SlotOf(j)] = 0]
          /\ msgJob' = [msgJob EXCEPT ![jobs[j].newStatus] = nextJob]
          /\ nextJob' = nextJob + 1
       \/ /\ jobs' = [jobs EXCEPT ![j].pc = "catchDel"]
          /\ UNCHANGED <<slot, msgJob, nextJob>>
    /\ UNCHANGED <<handler, msgs, delIssued, runs,
                   audioSent, errorSent, nextMsg>>
    /\ UNCHANGED othersOfQueue

\* mutation of CatchDeleteStatus: the catch block without its deleteStatus
CatchWithoutDelete(j) ==
    /\ Active(j) /\ jobs[j].pc = "catchDel"
    /\ jobs' = [jobs EXCEPT ![j].pc = "catchMsg"]
    /\ UNCHANGED <<handler, slot, msgs, msgJob, delIssued, runs,
                   audioSent, errorSent, nextJob, nextMsg>>
    /\ UNCHANGED othersOfQueue

\* catch (error) { await deleteStatus(bot, data.chatId, data.statusMsgId)
CatchDeleteStatus(j) ==
    /\ Active(j) /\ jobs[j].pc = "catchDel"
    /\ LET m == jobs[j].statusMsgId
       IN IF m # 0
          THEN /\ msgs' \in DeleteOutcomes(m)
               /\ delIssued' = delIssued \cup {m}
          ELSE UNCHANGED <<msgs, delIssued>>
    /\ jobs' = [jobs EXCEPT ![j].pc = "catchMsg"]
    /\ UNCHANGED <<handler, slot, msgJob, runs,
                   audioSent, errorSent, nextJob, nextMsg>>
    /\ UNCHANGED othersOfQueue

\* await bot.api.sendMessage(chatId, `Error: ${msg}`).catch(() => {});
\* throw error }
CatchSendError(j) ==
    /\ Active(j) /\ jobs[j].pc = "catchMsg"
    /\ \/ errorSent' = [errorSent EXCEPT ![j] = @ + 1]
       \/ UNCHANGED errorSent
    /\ Finish(j, FALSE)
    /\ UNCHANGED <<handler, msgs, msgJob, delIssued, runs,
                   audioSent, nextJob, nextMsg>>
    /\ UNCHANGED othersOfQueue

\* the types of the jobs of the backlog, in the order they were added
PoolTypes == <<"voice", "document", "tts", "ttsai">>

\* the worker starts on a queue that holds a backlog of PoolSize jobs, each
\* with its status message posted; nothing is added while it works
PoolInit ==
    /\ handler = IdleHandler
    /\ jobs = [j \in JobIds |->
                 IF j <= PoolSize
                 THEN [state |-> "waiting", type |-> PoolTypes[j], statusMsgId |-> j,
                       pc |-> "none", newStatus |-> 0, attemptsMade |-> 0]
                 ELSE NoJob]
    /\ slot = [w \in WorkerSlots |-> 0]
    /\ msgs = [m \in MsgIds |-> IF m <= PoolSize THEN "live" ELSE "none"]
    /\ msgJob = [m \in MsgIds |-> IF m <= PoolSize THEN m ELSE 0]
    /\ delIssued = {}
    /\ runs = [j \in JobIds |-> 0]
    /\ audioSent = [j \in JobIds |-> 0]
    /\ errorSent = [j \in JobIds |-> 0]
    /\ nextJob = Max(MaxJobs, PoolSize) + 1
    /\ nextMsg = Max(MaxMsgs, PoolSize) + 1

QueueInit ==
    /\ handler = IdleHandler
    /\ jobs = [j \in JobIds |-> NoJob]
    /\ slot = [w \in WorkerSlots |-> 0]
    /\ msgs = [m \in MsgIds |-> "none"]
    /\ msgJob = [m \in MsgIds |-> 0]
    /\ delIssued = {}
    /\ runs = [j \in JobIds |-> 0]
    /\ audioSent = [j \in JobIds |-> 0]
    /\ errorSent = [j \in JobIds |-> 0]
    /\ nextJob = 1
    /\ nextMsg = 1

\* a data.type a later producer may write: none of the cases of the switch
FutureType == "future"

\* switch (data.type) without a default: no case matches, the try block ends
\* and the processor returns
SwitchNoCase(j) ==
    /\ Active(j) /\ jobs[j].pc = "break"
    /\ Finish(j, TRUE)
    /\ UNCHANGED <<handler, msgs, msgJob, delIssued, runs,
                   audioSent, errorSent, nextJob, nextMsg>>
    /\ UNCHANGED othersOfQueue

\* a backlog that holds a job of a kind the worker does not know
ForeignTypes == <<FutureType, "tts", "document">>

ForeignInit ==
    /\ handler = IdleHandler
    /\ jobs = [j \in JobIds |->
                 IF j <= Len(ForeignTypes)
                 THEN [state |-> "waiting", type |-> ForeignTypes[j],
                       statusMsgId |-> j,
                       pc |-> "none", newStatus |-> 0, attemptsMade |-> 0]
                 ELSE NoJob]
    /\ slot = [w \in WorkerSlots |-> 0]
    /\ msgs = [m \in MsgIds |-> IF m <= Len(ForeignTypes) THEN "live" ELSE "none"]
    /\ msgJob = [m \in MsgIds |-> IF m <= Len(ForeignTypes) THEN m ELSE 0]
    /\ delIssued = {}
    /\ runs = [j \in JobIds |-> 0]
    /\ audioSent = [j \in JobIds |-> 0]
    /\ errorSent = [j \in JobIds |-> 0]
    /\ nextJob = Max(MaxJobs, PoolSize) + 1
    /\ nextMsg = Max(MaxMsgs, PoolSize) + 1

\* the worker's steps on that backlog
ForeignNext ==
    \/ \E w \in WorkerSlots, j \in JobIds : Claim(w, j)
    \/ \E j \in JobIds : SwitchNoCase(j)
    \/ \E j \in JobIds : ParseDocument(j)
    \/ \E j \in JobIds : GenerateSpeech(j)
    \/ \E j \in JobIds : DeleteStatus(j)
    \/ \E j \in JobIds : SendVoice(j)
    \/ \E j \in JobIds : CatchDeleteStatus(j)
    \/ \E j \in JobIds : CatchSendError(j)

\* the worker's steps that add nothing to the queue
BacklogNext ==
    \/ \E w \in WorkerSlots, j \in JobIds : Claim(w, j)
    \/ \E j \in JobIds : ParseDocument(j)
    \/ \E j \in JobIds : GenerateSpeech(j)
    \/ \E j \in JobIds : Transcribe(j)
    \/ \E j \in JobIds : DeleteStatus(j)
    \/ \E j \in JobIds : SendVoice(j)
    \/ \E j \in JobIds : SendTranscription(j)
    \/ \E j \in JobIds : PostFollowUpStatus(j)
    \/ \E j \in JobIds : CatchDeleteStatus(j)
    \/ \E j \in JobIds : CatchSendError(j)

\* the worker's steps
WorkerNext ==
    \/ BacklogNext
    \/ \E j \in JobIds : AddFollowUp(j)

QueueNext ==
    \/ UpdatePasses
    \/ HandlerPostStatus
    \/ HandlerQueueAdd
    \/ \E w \in WorkerSlots, j \in JobIds : Claim(w, j)
    \/ \E j \in JobIds : ParseDocument(j)
    \/ \E j \in JobIds : GenerateSpeech(j)
    \/ \E j \in JobIds : Transcribe(j)
    \/ \E j \in JobIds : DeleteStatus(j)
    \/ \E j \in JobIds : SendVoice(j)
    \/ \E j \in JobIds : SendTranscription(j)
    \/ \E j \in JobIds : PostFollowUpStatus(j)
    \/ \E j \in JobIds : AddFollowUp(j)
    \/ \E j \in JobIds : CatchDeleteStatus(j)
    \/ \E j \in JobIds : CatchSendError(j)

-----------------------------------------------------------------------------
(* openaiService.ts: OpenAIService.generateSpeech and concatenateAudio *)

\* the generateSpeech calls that may overlap (jobs on different worker slots)
Calls == {1, 2}
\* the milliseconds Date.now() passes through
ClockValues == {0, 1}
\* chunks.length of the calls' texts
ChunkCounts == 1..MaxChunks

\* path.join(tempDir, `chunk-${i.toString().padStart(4, '0')}.opus`)
ChunkFile(i) == <<"chunk", i>>
\* path.join(tempDir, 'output.opus')
OutputFile == <<"output", 0>>
\* outputPath.replace('.opus', '-list.txt')
ListFile == <<"output-list", 0>>

\* the audio the provider returns for chunk i of call c
Audio(c, i) == <<c, i>>

DirExists(d) == d \in DOMAIN fs
FileExists(d, f) == DirExists(d) /\ f \in DOMAIN fs[d]

\* fs.mkdir(dir, { recursive: true })
Mkdir(d) ==
    [x \in DOMAIN fs \cup {d} |-> IF x \in DOMAIN fs THEN fs[x] ELSE <<>>]

\* fs.writeFile(path, content) in an existing directory
WriteFile(d, f, content) ==
    [x \in DOMAIN fs |->
        IF x = d
        THEN [y \in DOMAIN fs[d] \cup {f} |-> IF y = f THEN content ELSE fs[d][y]]
        ELSE fs[x]]

\* fs.unlink(path)
Unlink(d, f) ==
    [x \in DOMAIN fs |->
        IF x = d THEN [y \in DOMAIN fs[d] \ {f} |-> fs[d][y]] ELSE fs[x]]

\* fs.rm(dir, { recursive: true, force: true })
Rm(d) == [x \in DOMAIN fs \ {d} |-> fs[x]]

NoDir == 0 - 1
NoManifest == <<>>

\* proc.exitCode before the concatenation has run
NoExit == 0 - 1

\* exitCode is history: the exit code of the call's ffmpeg concat run;
\* progress is history: the chunk numbers onProgress was called with
IdleCall == [pc |-> "idle", n |-> 0, i |-> 0, tempDir |-> NoDir,
             audioFiles |-> <<>>, inflight |-> {}, issued |-> <<>>,
             manifest |-> NoManifest, failed |-> FALSE, result |-> "none",
             audio |-> <<>>, exitCode |-> NoExit, progress |-> <<>>]

\* mutation of LoopIndex: the loop runs from the last chunk down
LoopIndexDescending(c) == gs[c].n - 1 - gs[c].i

\* for (let i = 0; i < chunks.length; i++): the chunk of this iteration
LoopIndex(c) == gs[c].i

\* generateSpeech is called: sanitize, split; one chunk is synthesized
\* directly, several chunks get tempDir = tts-${Date.now()} and mkdir
StartSpeech(c) ==
    /\ gs[c].pc = "idle"
    /\ \A b \in Calls : b < c => gs[b].pc # "idle"
    /\ \E n \in ChunkCounts :
        IF n = 1
        THEN /\ gs' = [gs EXCEPT ![c] = [@ EXCEPT !.pc = "single", !.n = n]]
             /\ fs' = fs
        ELSE /\ gs' = [gs EXCEPT ![c] =
                        [@ EXCEPT !.pc = "loop", !.n = n, !.tempDir = clock]]
             /\ fs' = Mkdir(clock)
    /\ UNCHANGED clock
    /\ UNCHANGED othersOfSpeech

\* if (chunks.length === 1) return this.generateSingleChunk(chunks[0], ...)
SingleChunk(c) ==
    /\ gs[c].pc = "single"
    /\ \/ gs' = [gs EXCEPT ![c] = [@ EXCEPT !.pc = "done", !.result = "audio"]]
       \/ gs' = [gs EXCEPT ![c] = [@ EXCEPT !.pc = "done", !.result = "error",
                                             !.failed = TRUE]]
    /\ UNCHANGED <<clock, fs>>
    /\ UNCHANGED othersOfSpeech

\* onProgress?.(i + 1, ...); this.generateSingleChunk(chunks[i], ...) is called
IssueChunk(c) ==
    /\ gs[c].pc = "loop"
    /\ gs' = [gs EXCEPT ![c] =
                [@ EXCEPT !.pc = "synth",
                          !.progress = Append(@, LoopIndex(c) + 1),
                          !.inflight = @ \cup {LoopIndex(c)},
                          !.issued = Append(@, LoopIndex(c))]]
    /\ UNCHANGED <<clock, fs>>
    /\ UNCHANGED othersOfSpeech

\* const audio = await this.generateSingleChunk(...): the audio, or a throw
ReceiveChunk(c) ==
    /\ gs[c].pc = "synth"
    /\ \E ok \in BOOLEAN :
        gs' = [gs EXCEPT ![c] =
                [@ EXCEPT !.pc = IF ok THEN "write" ELSE "finally",
                          !.failed = ~ok,
                          !.inflight = @ \ {LoopIndex(c)}]]
    /\ UNCHANGED <<clock, fs>>
    /\ UNCHANGED othersOfSpeech

\* await fs.writeFile(filePath, audio); audioFiles.push(filePath); i++;
\* after the last chunk onProgress?.(chunks.length, chunks.length, ...)
WriteChunk(c) ==
    /\ gs[c].pc = "write"
    /\ \/ /\ DirExists(gs[c].tempDir)
          /\ fs' = WriteFile(gs[c].tempDir, ChunkFile(LoopIndex(c)),
                             Audio(c, LoopIndex(c)))
          /\ gs' = [gs EXCEPT ![c] =
                [@ EXCEPT !.pc = IF gs[c].i + 1 < gs[c].n THEN "loop" ELSE "ffcheck",
                          !.audioFiles = Append(@, ChunkFile(LoopIndex(c))),
                          !.progress = IF gs[c].i + 1 < gs[c].n THEN @
                                       ELSE Append(@, gs[c].n),
                          !.i = @ + 1]]
       \/ \* ENOENT when the directory is gone, or any other write error
          /\ gs' = [gs EXCEPT ![c] = [@ EXCEPT !.pc = "finally", !.failed = TRUE]]
          /\ fs' = fs
    /\ UNCHANGED clock
    /\ UNCHANGED othersOfSpeech

\* concatenateAudio: await this.checkFFmpegAvailable()
CheckFFmpeg(c) ==
    /\ gs[c].pc = "ffcheck"
    /\ \E ok \in BOOLEAN :
        gs' = [gs EXCEPT ![c] =
                [@ EXCEPT !.pc = IF ok THEN "list" ELSE "finally", !.failed = ~ok]]
    /\ UNCHANGED <<clock, fs>>
    /\ UNCHANGED othersOfSpeech

\* listContent = inputFiles.map(f => `file '${f}'`).join('\n');
\* await fs.writeFile(listPath, listContent)
WriteList(c) ==
    /\ gs[c].pc = "list"
    /\ \/ /\ DirExists(gs[c].tempDir)
          /\ fs' = WriteFile(gs[c].tempDir, ListFile, gs[c].audioFiles)
          /\ gs' = [gs EXCEPT ![c].pc = "ffmpeg"]
       \/ /\ gs' = [gs EXCEPT ![c] = [@ EXCEPT !.pc = "finally", !.failed = TRUE]]
          /\ fs' = fs
    /\ UNCHANGED clock
    /\ UNCHANGED othersOfSpeech

\* what ffmpeg -f concat -i listPath -c copy outputPath finds on disk
ListReadable(d) ==
    /\ FileExists(d, ListFile)
    /\ \A k \in 1..Len(fs[d][ListFile]) : FileExists(d, fs[d][ListFile][k])

\* mutation of ConcatFailed: the exit code is not looked at
ConcatFailedIgnored(exitCode) == FALSE

\* if (proc.exitCode !== 0) throw new Error(`FFmpeg concat failed: ...`)
ConcatFailed(exitCode) == exitCode # 0

\* Bun.spawn(['ffmpeg', ...]); await proc.exited; exit code 0 with the
\* listed files copied to the output in list order, or a non-zero exit
RunFFmpeg(c) ==
    /\ gs[c].pc = "ffmpeg"
    /\ \E exitCode \in {0, 1} :
        LET d == gs[c].tempDir
            manifest == IF FileExists(d, ListFile)
                        THEN fs[d][ListFile] ELSE gs[c].manifest
        IN  /\ exitCode = 0 => ListReadable(d)
            /\ fs' = IF exitCode = 0
                     THEN WriteFile(d, OutputFile,
                            [k \in 1..Len(fs[d][ListFile]) |->
                                fs[d][fs[d][ListFile][k]]])
                     ELSE fs
            /\ gs' = [gs EXCEPT ![c] =
                    IF ConcatFailed(exitCode)
                    THEN [@ EXCEPT !.pc = "finally", !.failed = TRUE,
                                   !.manifest = manifest,
                                   !.exitCode = exitCode]
                    ELSE [@ EXCEPT !.pc = "unlink", !.manifest = manifest,
                                   !.exitCode = exitCode]]
    /\ UNCHANGED clock
    /\ UNCHANGED othersOfSpeech

\* await fs.unlink(listPath).catch(() => {})
UnlinkList(c) ==
    /\ gs[c].pc = "unlink"
    /\ fs' = IF FileExists(gs[c].tempDir, ListFile)
             THEN Unlink(gs[c].tempDir, ListFile) ELSE fs
    /\ gs' = [gs EXCEPT ![c].pc = "read"]
    /\ UNCHANGED clock
    /\ UNCHANGED othersOfSpeech

\* const result = await fs.readFile(outputPath); return result
ReadOutput(c) ==
    /\ gs[c].pc = "read"
    /\ \/ /\ FileExists(gs[c].tempDir, OutputFile)
          /\ gs' = [gs EXCEPT ![c] =
                [@ EXCEPT !.pc = "finally", !.audio = fs[gs[c].tempDir][OutputFile]]]
       \/ gs' = [gs EXCEPT ![c] = [@ EXCEPT !.pc = "finally", !.failed = TRUE]]
    /\ UNCHANGED <<clock, fs>>
    /\ UNCHANGED othersOfSpeech

\* mutation of Cleanup: the directory is removed after a success only
CleanupOnSuccess(c) ==
    IF gs[c].failed THEN fs ELSE Rm(gs[c].tempDir)

\* await fs.rm(tempDir, { recursive: true, force: true })
Cleanup(c) == Rm(gs[c].tempDir)

\* finally { cleanup }, then the call returns the audio or throws
Finally(c) ==
    /\ gs[c].pc = "finally"
    /\ fs' = Cleanup(c)
    /\ gs' = [gs EXCEPT ![c] =
            [IdleCall EXCEPT !.pc = "done", !.n = gs[c].n, !.i = gs[c].i,
                             !.failed = gs[c].failed,
                             !.exitCode = gs[c].exitCode,
                             !.result = IF gs[c].failed THEN "error" ELSE "audio"]]
    /\ UNCHANGED clock
    /\ UNCHANGED othersOfSpeech

\* a millisecond passes
Tick ==
    /\ clock + 1 \in ClockValues
    /\ clock' = clock + 1
    /\ UNCHANGED <<fs, gs>>
    /\ UNCHANGED othersOfSpeech

SpeechInit ==
    /\ clock = 0
    /\ fs = <<>>
    /\ gs = [c \in Calls |-> IdleCall]

SpeechNext ==
    \/ \E c \in Calls : StartSpeech(c)
    \/ \E c \in Calls : SingleChunk(c)
    \/ \E c \in Calls : IssueChunk(c)
    \/ \E c \in Calls : ReceiveChunk(c)
    \/ \E c \in Calls : WriteChunk(c)
    \/ \E c \in Calls : CheckFFmpeg(c)
    \/ \E c \in Calls : WriteList(c)
    \/ \E c \in Calls : RunFFmpeg(c)
    \/ \E c \in Calls : UnlinkList(c)
    \/ \E c \in Calls : ReadOutput(c)
    \/ \E c \in Calls : Finally(c)
    \/ Tick

-----------------------------------------------------------------------------
(* openaiService.ts: one request to /v1/audio/speech and its retries.      *)
(* Two generations of the service are in the repository: the axios one     *)
(* with its own retry loop, and the one that configures the SDK client     *)
(* with maxRetries and calls client.audio.speech.create once.              *)

\* error.response is undefined: a timeout or a connection error
NoResponse == 0
\* what one request can end with: 200, an error status, or no response
Statuses == {200, 400, 401, 408, 429, 500, 503, NoResponse}

Clients == {"axios", "sdk"}

\* generateSpeech(text, voice, options, retries = 3)
retries == 3
\* new OpenAI({ apiKey, maxRetries: 3, timeout: 60000 })
maxRetries == 3

RECURSIVE Pow2(_)
Pow2(n) == IF n = 0 THEN 1 ELSE 2 * Pow2(n - 1)

\* if (status && status >= 500 && attempt < retries)
AxiosShouldRetry(status, attempt) ==
    status # NoResponse /\ status >= 500 /\ attempt < retries

\* const delay = Math.pow(2, attempt) * 1000
AxiosDelay(attempt) == Pow2(attempt) * 1000

\* the client repeats a request while retries remain, maxRetries times after
\* the first attempt, on a connection error or timeout, on 408, 409, 429
\* and on any status from 500 (docs/tts_research.md: "retryable errors
\* (429 rate limits, 5xx server errors)")
SdkShouldRetry(status, attempt) ==
    /\ attempt - 1 < maxRetries
    /\ \/ status = NoResponse
       \/ status \in {408, 409, 429}
       \/ status >= 500

\* the client's nominal backoff: half a second, doubled per retry, at most 8 s
SdkDelay(attempt) ==
    IF 500 * Pow2(attempt - 1) < 8000 THEN 500 * Pow2(attempt - 1) ELSE 8000

ShouldRetry(client, status, attempt) ==
    IF client = "axios" THEN AxiosShouldRetry(status, attempt)
    ELSE SdkShouldRetry(status, attempt)

Delay(client, attempt) ==
    IF client = "axios" THEN AxiosDelay(attempt) ELSE SdkDelay(attempt)

IdleSyn == [pc |-> "idle", client |-> "axios", attempt |-> 0,
            log |-> <<>>, delays |-> <<>>, result |-> "none"]

\* generateSpeech / generateSingleChunk is called: the first request goes out
SynStart(c) ==
    /\ syn.pc = "idle"
    /\ syn' = [IdleSyn EXCEPT !.pc = "call", !.client = c, !.attempt = 1]
    /\ UNCHANGED othersOfRetry

\* the request ends: the audio is returned, or the error is looked at
SynRespond(status) ==
    /\ syn.pc = "call"
    /\ LET logged == [syn EXCEPT !.log = Append(@, status)]
       IN  IF status = 200
           THEN syn' = [logged EXCEPT !.pc = "done", !.result = "audio"]
           ELSE IF ShouldRetry(syn.client, status, syn.attempt)
           THEN syn' = [logged EXCEPT
                    !.pc = "wait",
                    !.delays = Append(@, Delay(syn.client, syn.attempt))]
           ELSE syn' = [logged EXCEPT !.pc = "done", !.result = "error"]
    /\ UNCHANGED othersOfRetry

\* the backoff timer fires: continue with the next attempt
SynRetry ==
    /\ syn.pc = "wait"
    /\ syn' = [syn EXCEPT !.pc = "call", !.attempt = @ + 1]
    /\ UNCHANGED othersOfRetry

RetryInit == syn = IdleSyn

RetryNext ==
    \/ \E c \in Clients : SynStart(c)
    \/ \E status \in Statuses : SynRespond(status)
    \/ SynRetry

-----------------------------------------------------------------------------
(* redis/preferences.ts, core.ts, webhookBot.ts: the preferences of an     *)
(* owner and the jobs that are spoken with them                            *)

\* a field the hash does not hold
None == "none"
NoSpeed == 0

\* the voices, the speeds (in tenths) and the tone instructions of the commands
Voices == {"alloy", "nova"}
Speeds == {15}
Tones == {"cheerfully"}

\* DEFAULT_PREFS
DEFAULT_PREFS == [voice |-> "alloy", speed |-> 10]

\* the job whose preferences are followed
PrefJobs == {1}

EmptyHash == [voice |-> None, speed |-> NoSpeed, instructions |-> None]

\* getPrefs(chatId): hgetall, the defaults for the fields that are absent
getPrefs(chatId) ==
    LET data == prefStore[chatId]
    IN  [voice |-> IF data.voice # None THEN data.voice ELSE DEFAULT_PREFS.voice,
         speed |-> IF data.speed # NoSpeed THEN data.speed ELSE DEFAULT_PREFS.speed,
         instructions |-> data.instructions]

\* n: the chunks of the job's text; spoken and stored are history: the voice,
\* speed and instructions each chunk was requested with, and the owner's
\* voice in the store at that moment
NoPrefJob == [state |-> "none", chatId |-> 0,
              atEnqueue |-> EmptyHash, used |-> EmptyHash,
              n |-> 0, spoken |-> <<>>, stored |-> <<>>]

\* /voice <name>: setVoice(chatId, v), hset voice
setVoice(chatId, voice) ==
    /\ prefStore' = [prefStore EXCEPT ![chatId].voice = voice]
    /\ UNCHANGED pjobs
    /\ UNCHANGED othersOfPrefs

\* /speed <x>: setSpeed(chatId, speed), hset speed
setSpeed(chatId, speed) ==
    /\ prefStore' = [prefStore EXCEPT ![chatId].speed = speed]
    /\ UNCHANGED pjobs
    /\ UNCHANGED othersOfPrefs

\* /tone <text> or /tone off: setInstructions, hset or hdel instructions
setInstructions(chatId, instructions) ==
    /\ prefStore' = [prefStore EXCEPT ![chatId].instructions = instructions]
    /\ UNCHANGED pjobs
    /\ UNCHANGED othersOfPrefs

\* queueTTS: queue.add(name, { type, chatId, text, statusMsgId }); the data
\* carry no preferences. atEnqueue is history: what getPrefs would return now
QueueTTS(j, chatId) ==
    /\ pjobs[j].state = "none"
    /\ pjobs' = [pjobs EXCEPT ![j] =
                  [state |-> "waiting", chatId |-> chatId,
                   atEnqueue |-> getPrefs(chatId), used |-> EmptyHash,
                   n |-> 0, spoken |-> <<>>, stored |-> <<>>]]
    /\ UNCHANGED prefStore
    /\ UNCHANGED othersOfPrefs

\* processTTS -> core.generateSpeech: const prefs = getPrefs(chatId), and
\* this.openAI.generateSpeech(text, prefs.voice, { speed, instructions }) is
\* called and splits the text
ReadPrefs(j) ==
    /\ pjobs[j].state = "waiting"
    /\ \E n \in 1..MaxChunks :
        pjobs' = [pjobs EXCEPT ![j].state = "speaking",
                               ![j].used = getPrefs(pjobs[j].chatId),
                               ![j].n = n]
    /\ UNCHANGED prefStore
    /\ UNCHANGED othersOfPrefs

\* mutation of ChunkPrefs: the preferences are read again for each chunk
ChunkPrefsReadAgain(j) == getPrefs(pjobs[j].chatId)

\* this.generateSingleChunk(chunks[i], voice, speed, instructions): the
\* parameters and locals of openAI.generateSpeech
ChunkPrefs(j) == pjobs[j].used

\* one chunk is requested and received; after the last one the audio is sent
SpeakWithPrefs(j) ==
    /\ pjobs[j].state = "speaking"
    /\ pjobs' = [pjobs EXCEPT
                   ![j].spoken = Append(@, ChunkPrefs(j)),
                   ![j].stored = Append(@, getPrefs(pjobs[j].chatId).voice),
                   ![j].state = IF Len(pjobs[j].spoken) + 1 = pjobs[j].n
                                THEN "sent" ELSE "speaking"]
    /\ UNCHANGED prefStore
    /\ UNCHANGED othersOfPrefs

PrefsInit ==
    /\ prefStore = [o \in Owners |-> EmptyHash]
    /\ pjobs = [j \in PrefJobs |-> NoPrefJob]

PrefsNext ==
    \/ \E o \in Owners, v \in Voices : setVoice(o, v)
    \/ \E o \in Owners, x \in Speeds : setSpeed(o, x)
    \/ \E o \in Owners, t \in Tones \cup {None} : setInstructions(o, t)
    \/ \E j \in PrefJobs, o \in Owners : QueueTTS(j, o)
    \/ \E j \in PrefJobs : ReadPrefs(j)
    \/ \E j \in PrefJobs : SpeakWithPrefs(j)

-----------------------------------------------------------------------------
(* openaiService.ts: OpenAIService.splitTextIntoChunks, on texts as         *)
(* sequences of characters                                                  *)

\* private readonly maxChunkLength: number = 3800
maxChunkLength == 3800

\* the characters of the texts: a letter, the whitespace, the punctuation
\* of a sentence end and of a clause break
Chars == {"a", " ", "\n", ".", ","}
WhiteSpace == {" ", "\n"}

Texts == UNION {[1..n -> Chars] : n \in 0..MaxTextLen}

\* s.slice(from, to) and s.slice(from), with indices from 0
Slice(s, from, to) == SubSeq(s, from + 1, IF to < Len(s) THEN to ELSE Len(s))
SliceFrom(s, from) == SubSeq(s, from + 1, Len(s))

\* s.trim()
RECURSIVE TrimStart(_)
TrimStart(s) ==
    IF Len(s) > 0 /\ s[1] \in WhiteSpace THEN TrimStart(Tail(s)) ELSE s

RECURSIVE TrimEnd(_)
TrimEnd(s) ==
    IF Len(s) > 0 /\ s[Len(s)] \in WhiteSpace
    THEN TrimEnd(SubSeq(s, 1, Len(s) - 1)) ELSE s

Trim(s) == TrimEnd(TrimStart(s))

\* Math.max
MaxOf(S) == CHOOSE x \in S : \A y \in S : y <= x

\* segment.lastIndexOf(pattern) for a pattern of two characters: the index
\* from 0 of the last occurrence, -1 if there is none
LastIndexOf(segment, pattern) ==
    LET at == {i \in 0..(Len(segment) - 2) :
                  /\ segment[i + 1] = pattern[1]
                  /\ segment[i + 2] = pattern[2]}
    IN  IF at = {} THEN -1 ELSE MaxOf(at)

\* breakAt > this.maxChunkLength * 0.5
PastHalf(breakAt, limit) == 2 * breakAt > limit

\* mutation of HardSplit: the hard split one character past the limit
HardSplitPastLimit(limit) == limit + 1

\* let splitAt = this.maxChunkLength
HardSplit(limit) == limit

\* the split point of one round of the loop
SplitAt(remaining, limit) ==
    LET segment == Slice(remaining, 0, limit)
        paragraphBreak == LastIndexOf(segment, <<"\n", "\n">>)
        sentenceEnd == MaxOf({LastIndexOf(segment, <<".", " ">>),
                              LastIndexOf(segment, <<"!", " ">>),
                              LastIndexOf(segment, <<"?", " ">>)})
        clauseBreak == MaxOf({LastIndexOf(segment, <<",", " ">>),
                              LastIndexOf(segment, <<";", " ">>),
                              LastIndexOf(segment, <<":", " ">>)})
    IN  IF PastHalf(paragraphBreak, limit) THEN paragraphBreak + 2
        ELSE IF PastHalf(sentenceEnd, limit) THEN sentenceEnd + 2
        ELSE IF PastHalf(clauseBreak, limit) THEN clauseBreak + 2
        ELSE HardSplit(limit)

\* mutation of Rest: the character at the split point is skipped
RestSkipping(remaining, splitAt) == SliceFrom(remaining, splitAt + 1)

\* remaining = remaining.slice(splitAt)
Rest(remaining, splitAt) == SliceFrom(remaining, splitAt)

\* while (remaining.length > 0) { ... }
RECURSIVE SplitLoop(_, _, _)
SplitLoop(remaining, acc, limit) ==
    IF Len(remaining) = 0 THEN acc
    ELSE IF Len(remaining) <= limit THEN Append(acc, Trim(remaining))
    ELSE LET splitAt == SplitAt(remaining, limit)
         IN  SplitLoop(Rest(remaining, splitAt),
                       Append(acc, Trim(Slice(remaining, 0, splitAt))),
                       limit)

\* splitTextIntoChunks(text), with this.maxChunkLength = limit
splitTextIntoChunks(t, limit) ==
    IF Len(t) <= limit THEN <<t>>
    ELSE SelectSeq(SplitLoop(t, <<>>, limit), LAMBDA c : Len(c) > 0)

\* the call returns
Split ==
    /\ ~split
    /\ chunks' = splitTextIntoChunks(text, ChunkLimit)
    /\ split' = TRUE
    /\ UNCHANGED text
    /\ UNCHANGED othersOfChunks

\* any text is the argument
ChunksInit == text \in Texts /\ chunks = <<>> /\ split = FALSE

ChunksQuiet == text = <<>> /\ chunks = <<>> /\ split = FALSE

ChunksNext == Split

-----------------------------------------------------------------------------
(* redis/invites.ts: createInvite, getInvite, redeemInvite, listInvites,    *)
(* revokeInvite, one step per await                                         *)

\* the codes generateCode returns, and the calls that may overlap
Codes == {1, 2}
InviteCalls == {1, 2}

\* no key tts:invite:{code}
NoHash == [code |-> FALSE, createdBy |-> 0, usesLeft |-> 0, key |-> FALSE]

\* getInvite(code): null unless the hash has its code field
getInvite(code) ==
    IF ~invites[code].code THEN NoHash ELSE invites[code]

IsNull(invite) == ~invite.code

\* listInvites(createdBy): smembers, then getInvite for each code, nulls
\* left out
listInvites(createdBy) ==
    {c \in invIndex[createdBy] : ~IsNull(getInvite(c))}

IdleCall2 == [op |-> "idle", pc |-> "idle", code |-> 0, chatId |-> 0,
              createdBy |-> 0, usesLeft |-> 0, result |-> "none",
              createdUser |-> FALSE]

\* the codes a caller can pass to redeemInvite and revokeInvite: a code
\* that createInvite has returned, or a string that is no code of an invite.
\* The 8 hex digits of an invite whose createInvite has not returned yet
\* are known to nobody
Passable(code) ==
    \A k \in InviteCalls : ~(icalls[k].pc = "sadd" /\ icalls[k].code = code)

\* a call starts in the first record that is free
FreeCall(k) ==
    /\ icalls[k].op = "idle"
    /\ \A j \in InviteCalls : j < k => icalls[j].op # "idle"

\* createInvite: generateCode (a code not handed out before), then
\* await redis.hset(key, { code, role, createdBy, usesLeft, createdAt })
CreateHset(k, createdBy, uses) ==
    /\ FreeCall(k)
    /\ \E code \in Codes :
        /\ issued[code].createdBy = 0
        /\ \A other \in Codes : other < code => issued[other].createdBy # 0
        /\ invites' = [invites EXCEPT ![code] =
                        [code |-> TRUE, createdBy |-> createdBy,
                         usesLeft |-> uses, key |-> TRUE]]
        /\ issued' = [issued EXCEPT ![code] =
                        [createdBy |-> createdBy, uses |-> uses]]
        /\ icalls' = [icalls EXCEPT ![k] =
                        [IdleCall2 EXCEPT !.op = "create", !.pc = "sadd",
                                          !.code = code, !.createdBy = createdBy]]
    /\ UNCHANGED <<invIndex, users, redeemed, gone>>
    /\ UNCHANGED othersOfInvites

\* await redis.sadd(indexKey, code); return code
CreateSadd(k) ==
    /\ icalls[k].pc = "sadd"
    /\ invIndex' = [invIndex EXCEPT ![icalls[k].createdBy] = @ \cup {icalls[k].code}]
    /\ icalls' = [icalls EXCEPT ![k] = IdleCall2]
    /\ UNCHANGED <<invites, users, issued, redeemed, gone>>
    /\ UNCHANGED othersOfInvites

\* redeemInvite: const invite = await getInvite(code);
\* if (!invite || invite.usesLeft <= 0) return false
RedeemGet(k, code, chatId) ==
    /\ FreeCall(k)
    /\ Passable(code)
    /\ LET invite == getInvite(code)
       IN  icalls' = [icalls EXCEPT ![k] =
             IF IsNull(invite) \/ invite.usesLeft <= 0
             THEN [IdleCall2 EXCEPT !.op = "redeem", !.pc = "done",
                                    !.result = "false"]
             ELSE [IdleCall2 EXCEPT !.op = "redeem", !.pc = "createUser",
                                    !.code = code, !.chatId = chatId,
                                    !.createdBy = invite.createdBy,
                                    !.usesLeft = invite.usesLeft]]
    /\ UNCHANGED <<invites, invIndex, users, issued, redeemed, gone>>
    /\ UNCHANGED othersOfInvites

\* await createUser(chatId, invite.role, invite.createdBy);
\* const newUsesLeft = invite.usesLeft - 1
RedeemCreateUser(k) ==
    /\ icalls[k].pc = "createUser"
    /\ users' = users \cup {icalls[k].chatId}
    /\ icalls' = [icalls EXCEPT ![k].createdUser = TRUE,
                                ![k].chatId = 0,
                                ![k].pc = IF icalls[k].usesLeft - 1 = 0
                                          THEN "del" ELSE "hset"]
    /\ UNCHANGED <<invites, invIndex, issued, redeemed, gone>>
    /\ UNCHANGED othersOfInvites

\* newUsesLeft === 0: await redis.del(key)
RedeemDel(k) ==
    /\ icalls[k].op = "redeem" /\ icalls[k].pc = "del"
    /\ invites' = [invites EXCEPT ![icalls[k].code] = NoHash]
    /\ gone' = [gone EXCEPT ![icalls[k].code] = "consumed"]
    /\ icalls' = [icalls EXCEPT ![k].pc = "srem"]
    /\ UNCHANGED <<invIndex, users, issued, redeemed>>
    /\ UNCHANGED othersOfInvites

\* await redis.srem(indexKey, code); return true
RedeemSrem(k) ==
    /\ icalls[k].op = "redeem" /\ icalls[k].pc = "srem"
    /\ invIndex' = [invIndex EXCEPT ![icalls[k].createdBy] = @ \ {icalls[k].code}]
    /\ redeemed' = [redeemed EXCEPT ![icalls[k].code] = @ + 1]
    /\ icalls' = [icalls EXCEPT ![k] =
                    [IdleCall2 EXCEPT !.op = "redeem", !.pc = "done",
                                      !.result = "true", !.createdUser = TRUE]]
    /\ UNCHANGED <<invites, users, issued, gone>>
    /\ UNCHANGED othersOfInvites

\* else: await redis.hset(key, 'usesLeft', newUsesLeft.toString());
\* return true. On a key that was deleted meanwhile the hset makes a hash
\* with the usesLeft field alone
RedeemHset(k) ==
    /\ icalls[k].pc = "hset"
    /\ invites' = [invites EXCEPT ![icalls[k].code] =
                    [@ EXCEPT !.usesLeft = icalls[k].usesLeft - 1,
                              !.key = TRUE]]
    /\ redeemed' = [redeemed EXCEPT ![icalls[k].code] = @ + 1]
    /\ icalls' = [icalls EXCEPT ![k] =
                    [IdleCall2 EXCEPT !.op = "redeem", !.pc = "done",
                                      !.result = "true", !.createdUser = TRUE]]
    /\ UNCHANGED <<invIndex, users, issued, gone>>
    /\ UNCHANGED othersOfInvites

\* the caller has the result of redeemInvite
RedeemReturn(k) ==
    /\ icalls[k].op = "redeem" /\ icalls[k].pc = "done"
    /\ icalls' = [icalls EXCEPT ![k] = IdleCall2]
    /\ UNCHANGED <<invites, invIndex, users, issued, redeemed, gone>>
    /\ UNCHANGED othersOfInvites

\* mutation of MayRevoke: the creator check left out
MayRevokeAnyone(invite, requestedBy) == TRUE

\* if (invite.createdBy !== requestedBy) return false
MayRevoke(invite, requestedBy) == invite.createdBy = requestedBy

\* revokeInvite: const invite = await getInvite(code); if (!invite) return
\* false; only the creator can revoke
RevokeGet(k, code, requestedBy) ==
    /\ FreeCall(k)
    /\ Passable(code)
    /\ LET invite == getInvite(code)
       IN  icalls' = [icalls EXCEPT ![k] =
             IF IsNull(invite) \/ ~MayRevoke(invite, requestedBy)
             THEN IdleCall2
             ELSE [IdleCall2 EXCEPT !.op = "revoke", !.pc = "del",
                                    !.code = code, !.chatId = requestedBy,
                                    !.createdBy = invite.createdBy]]
    /\ UNCHANGED <<invites, invIndex, users, issued, redeemed, gone>>
    /\ UNCHANGED othersOfInvites

\* await redis.del(key)
RevokeDel(k) ==
    /\ icalls[k].op = "revoke" /\ icalls[k].pc = "del"
    /\ invites' = [invites EXCEPT ![icalls[k].code] = NoHash]
    /\ gone' = [gone EXCEPT ![icalls[k].code] =
                  IF icalls[k].chatId = issued[icalls[k].code].createdBy
                  THEN "revoked" ELSE "revoked by another"]
    /\ icalls' = [icalls EXCEPT ![k].pc = "srem"]
    /\ UNCHANGED <<invIndex, users, issued, redeemed>>
    /\ UNCHANGED othersOfInvites

\* await redis.srem(indexKey, code); return true
RevokeSrem(k) ==
    /\ icalls[k].op = "revoke" /\ icalls[k].pc = "srem"
    /\ invIndex' = [invIndex EXCEPT ![icalls[k].createdBy] = @ \ {icalls[k].code}]
    /\ icalls' = [icalls EXCEPT ![k] = IdleCall2]
    /\ UNCHANGED <<invites, users, issued, redeemed, gone>>
    /\ UNCHANGED othersOfInvites

InvitesInit ==
    /\ invites = [c \in Codes |-> NoHash]
    /\ invIndex = [o \in Owners |-> {}]
    /\ users = {}
    /\ icalls = [k \in InviteCalls |-> IdleCall2]
    /\ issued = [c \in Codes |-> [createdBy |-> 0, uses |-> 0]]
    /\ redeemed = [c \in Codes |-> 0]
    /\ gone = [c \in Codes |-> "no"]

InvitesNext ==
    \/ \E k \in InviteCalls, o \in Owners, uses \in 0..MaxUses :
           CreateHset(k, o, uses)
    \/ \E k \in InviteCalls : CreateSadd(k)
    \/ \E k \in InviteCalls, c \in Codes, o \in Owners : RedeemGet(k, c, o)
    \/ \E k \in InviteCalls : RedeemCreateUser(k)
    \/ \E k \in InviteCalls : RedeemDel(k)
    \/ \E k \in InviteCalls : RedeemSrem(k)
    \/ \E k \in InviteCalls : RedeemHset(k)
    \/ \E k \in InviteCalls : RedeemReturn(k)
    \/ \E k \in InviteCalls, c \in Codes, o \in Owners : RevokeGet(k, c, o)
    \/ \E k \in InviteCalls : RevokeDel(k)
    \/ \E k \in InviteCalls : RevokeSrem(k)

-----------------------------------------------------------------------------
(* src/redis/ratelimit.ts: the keys incrementUsage and markNotified write,  *)
(* with their expiry; time in seconds                                       *)

\* Math.floor(now / 60000), new Date().toISOString().split('T')[0]
MinuteSeconds == 60
DaySeconds == 24 * 60 * 60
MinuteKeyAt(t) == t \div MinuteSeconds
DateKeyAt(t) == t \div DaySeconds

\* pipeline.expire(minuteRateLimitKey, 120)
MinuteTtl == 120
\* pipeline.expire(dayRateLimitKey, 48 * 60 * 60), and 'EX', 48 * 60 * 60
DayTtl == 48 * 60 * 60

\* the steps of the clock
HalfMinute == MinuteSeconds \div 2
HalfDay == DaySeconds \div 2

\* the key is there until its expiry time
LiveKeys(kind, bucket) ==
    {k \in ttlStore : k.kind = kind /\ k.bucket = bucket /\ k.exp > now}

\* redis.get(key)
TtlGet(kind, bucket) ==
    IF LiveKeys(kind, bucket) = {} THEN Null
    ELSE (CHOOSE k \in LiveKeys(kind, bucket) : TRUE).val

\* mutation of Expire: a quarter of the time
ExpireEarly(key, seconds) == [key EXCEPT !.exp = now + seconds \div 4]

\* EXPIRE key seconds, and SET key value EX seconds
Expire(key, seconds) == [key EXCEPT !.exp = now + seconds]

\* INCRBY key n, then EXPIRE key seconds: a key that is missing or has
\* expired counts from 0
IncrExpire(store, kind, bucket, n, seconds) ==
    LET old == TtlGet(kind, bucket)
        key == [kind |-> kind, bucket |-> bucket,
                val |-> IF old = Null THEN n ELSE old + n, exp |-> 0]
    IN  (store \ {k \in store : k.kind = kind /\ k.bucket = bucket})
            \cup {Expire(key, seconds)}

\* SET key value EX seconds
SetEx(store, kind, bucket, value, seconds) ==
    (store \ {k \in store : k.kind = kind /\ k.bucket = bucket})
        \cup {Expire([kind |-> kind, bucket |-> bucket, val |-> value,
                      exp |-> 0], seconds)}

\* history: what was written to the bucket written last
Noted(kind, bucket, n) ==
    [incs EXCEPT ![kind] =
        [bucket |-> bucket, at |-> now,
         sum |-> IF @.bucket = bucket THEN @.sum + n ELSE n,
         writes |-> IF @.bucket = bucket THEN @.writes + 1 ELSE 1]]

IdleUsage == [pc |-> "idle", minuteKey |-> 0, dateKey |-> 0, charCount |-> 0,
              started |-> 0]

\* incrementUsage(chatId, charCount): the keys are computed from the clock
\* at the call
UsageKeys(charCount) ==
    /\ ucall.pc = "idle"
    /\ ucall.started < MaxUsageCalls
    /\ ucall' = [pc |-> "exec", minuteKey |-> MinuteKeyAt(now),
                 dateKey |-> DateKeyAt(now), charCount |-> charCount,
                 started |-> ucall.started + 1]
    /\ UNCHANGED <<now, ttlStore, incs>>
    /\ UNCHANGED othersOfExpiry

\* await pipeline.exec(): incr, expire 120, incrby charCount, expire 48 h
UsageExec ==
    /\ ucall.pc = "exec"
    /\ ttlStore' =
         IncrExpire(IncrExpire(ttlStore, "min", ucall.minuteKey, 1, MinuteTtl),
                    "day", ucall.dateKey, ucall.charCount, DayTtl)
    /\ incs' = [Noted("min", ucall.minuteKey, 1) EXCEPT !["day"] =
                   Noted("day", ucall.dateKey, ucall.charCount)["day"]]
    /\ ucall' = [ucall EXCEPT !.pc = "idle"]
    /\ UNCHANGED now
    /\ UNCHANGED othersOfExpiry

\* markNotified(chatId): the date key is computed from the clock at the call
MarkKeys ==
    /\ ucall.pc = "idle"
    /\ ucall.started < MaxUsageCalls
    /\ ucall' = [pc |-> "set", minuteKey |-> 0, dateKey |-> DateKeyAt(now),
                 charCount |-> 0, started |-> ucall.started + 1]
    /\ UNCHANGED <<now, ttlStore, incs>>
    /\ UNCHANGED othersOfExpiry

\* await redis.set(notifiedKey, '1', 'EX', 48 * 60 * 60)
MarkSet ==
    /\ ucall.pc = "set"
    /\ ttlStore' = SetEx(ttlStore, "notified", ucall.dateKey, 1, DayTtl)
    /\ incs' = Noted("notified", ucall.dateKey, 1)
    /\ ucall' = [ucall EXCEPT !.pc = "idle"]
    /\ UNCHANGED now
    /\ UNCHANGED othersOfExpiry

\* time passes, and redis drops the keys whose time has come
Advance(seconds) ==
    /\ (now + seconds) % HalfDay <= MaxHalfMinutes * HalfMinute
    /\ (now + seconds) \div HalfDay <= MaxHalfDays
    /\ now' = now + seconds
    /\ ttlStore' = {k \in ttlStore : k.exp > now'}
    /\ UNCHANGED <<ucall, incs>>
    /\ UNCHANGED othersOfExpiry

NothingWritten == [bucket |-> -1, at |-> 0, sum |-> 0, writes |-> 0]

ExpiryInit ==
    /\ now = 0
    /\ ttlStore = {}
    /\ ucall = IdleUsage
    /\ incs = [kind \in {"min", "day", "notified"} |-> NothingWritten]

ExpiryNext ==
    \/ \E c \in {0, 500} : UsageKeys(c)
    \/ UsageExec
    \/ MarkKeys
    \/ MarkSet
    \/ \E seconds \in {HalfMinute, HalfDay} : Advance(seconds)

-----------------------------------------------------------------------------
(* webhookBot.ts: the POST handler of setupServer *)

UpdateIds == 1..MaxUpdates
\* the requests the server has open at a time
Posts == 1..2

IdlePost == [pc |-> "idle", updateId |-> 0]

\* processedUpdates.has(updateId)
HasUpdate(updateId) ==
    \E i \in 1..Len(processedUpdates) : processedUpdates[i] = updateId

\* processedUpdates.add(updateId): a Set keeps its insertion order
AddUpdate(updateId) ==
    IF HasUpdate(updateId) THEN processedUpdates
    ELSE Append(processedUpdates, updateId)

\* if (size > 1000) Array.from(set).slice(0, 500).forEach(delete)
CutBack(set) ==
    IF Len(set) > KeptUpdates
    THEN SubSeq(set, (KeptUpdates \div 2) + 1, Len(set))
    ELSE set

\* app.post: the id is looked up; a known id is answered with 200, any other
\* update is given to webhookCallback, which hands it to the bot handlers
ReceivePost(p, updateId) ==
    /\ posts[p].pc = "idle"
    /\ posted < MaxPosts
    /\ posted' = posted + 1
    /\ IF HasUpdate(updateId)
       THEN UNCHANGED <<posts, handed>>
       ELSE /\ posts' = [posts EXCEPT ![p] = [pc |-> "handling",
                                              updateId |-> updateId]]
            /\ handed' = [handed EXCEPT ![updateId] = @ + 1]
    /\ UNCHANGED <<processedUpdates, threw>>
    /\ UNCHANGED othersOfUpdates

\* await webhookCallback(...) returned: the id is added and the set cut back
PostHandled(p) ==
    /\ posts[p].pc = "handling"
    /\ processedUpdates' = CutBack(AddUpdate(posts[p].updateId))
    /\ posts' = [posts EXCEPT ![p] = IdlePost]
    /\ UNCHANGED <<handed, threw, posted>>
    /\ UNCHANGED othersOfUpdates

\* await webhookCallback(...) threw: 500 is answered, the id is not added
PostThrew(p) ==
    /\ posts[p].pc = "handling"
    /\ threw' = threw \cup {posts[p].updateId}
    /\ posts' = [posts EXCEPT ![p] = IdlePost]
    /\ UNCHANGED <<processedUpdates, handed, posted>>
    /\ UNCHANGED othersOfUpdates

UpdatesInit ==
    /\ processedUpdates = <<>>
    /\ posts = [p \in Posts |-> IdlePost]
    /\ handed = [u \in UpdateIds |-> 0]
    /\ threw = {}
    /\ posted = 0

UpdatesNext ==
    \/ \E p \in Posts, updateId \in UpdateIds : ReceivePost(p, updateId)
    \/ \E p \in Posts : PostHandled(p)
    \/ \E p \in Posts : PostThrew(p)

\* the chat accepts the edits of the status messages
StatusQuiet ==
    /\ tgEdits = "ok" /\ statusThrew = {}
    /\ statusTexts = [j \in JobIds |->
                        [followed |-> FALSE, total |-> 0, texts |-> <<>>]]

\* the chat accepts the edits, or rejects every one of them; the texts of
\* the status messages are followed
StatusInit ==
    /\ tgEdits \in {"ok", "failing"} /\ statusThrew = {}
    /\ statusTexts = [j \in JobIds |->
                        [followed |-> TRUE, total |-> 0, texts |-> <<>>]]

\* the subsystems that a specification does not exercise stay idle
LateInit == ExpiryInit /\ UpdatesInit

MoreInit ==
    /\ RetryInit /\ StatusQuiet /\ PrefsInit /\ ChunksQuiet /\ InvitesInit
    /\ LateInit

-----------------------------------------------------------------------------
(* The specifications *)

\* the rate limiter's store with nothing in it
RateQuiet ==
    /\ RateInit
    /\ dayNow = 0
    /\ \A o \in Owners : minStore[o][0] = Null

\* admission control
Init == RateInit /\ QueueInit /\ SpeechInit /\ MoreInit
Next == RateNext
Spec == Init /\ [][Next]_vars

\* sequential admission across the rollover of the minute bucket: one
\* middleware invocation at a time, a burst of requests of one chat, voice
\* messages and texts of 500 characters
RolloverNext ==
    \/ CheckMinuteOf(1, MaxBurst, {1}, {0, 500})
    \/ CheckDay(1)
    \/ CheckNotified(1)
    \/ ReplyBlocked(1)
    \/ SendNotice(1)
    \/ markNotified(1)
    \/ incrementUsage(1)
    \/ ReturnNext(1)
    \/ TickMinute
SpecRollover == Init /\ [][RolloverNext]_vars

\* the queue, its producers and the worker
SpecQueueInit == RateQuiet /\ QueueInit /\ SpeechInit /\ MoreInit
SpecQueue == SpecQueueInit /\ [][QueueNext]_vars

\* admission and the producers of the queue together: the middleware and the
\* handlers behind it, within one minute bucket
AdmitInit == RateInit /\ dayNow = 0 /\ QueueInit /\ SpeechInit /\ MoreInit
AdmitNext ==
    \/ \E r \in Slots : CheckMinute(r)
    \/ \E r \in Slots : CheckDay(r)
    \/ \E r \in Slots : CheckNotified(r)
    \/ \E r \in Slots : ReplyBlocked(r)
    \/ \E r \in Slots : SendNotice(r)
    \/ \E r \in Slots : markNotified(r)
    \/ \E r \in Slots : incrementUsage(r)
    \/ \E r \in Slots : CallNext(r)
    \/ HandlerTurnAway
    \/ HandlerPostStatus
    \/ HandlerQueueAdd
SpecAdmit == AdmitInit /\ [][AdmitNext]_vars

\* the worker on a backlog, with no producer: the chat takes no new status
\* message and the queue no new job
SpecPoolInit == RateQuiet /\ PoolInit /\ SpeechInit /\ MoreInit
SpecPool == SpecPoolInit /\ [][BacklogNext]_vars

\* every await of a job's processor returns or throws, and the worker takes
\* a waiting job when it has a free slot
JobStep(j) ==
    \/ \E w \in WorkerSlots : Claim(w, j)
    \/ ParseDocument(j) \/ GenerateSpeech(j) \/ Transcribe(j)
    \/ DeleteStatus(j) \/ SendVoice(j) \/ SendTranscription(j)
    \/ PostFollowUpStatus(j)
    \/ CatchDeleteStatus(j) \/ CatchSendError(j)
WorkerFair == \A j \in 1..PoolSize : WF_vars(JobStep(j))
SpecPoolFair == SpecPool /\ WorkerFair

\* concurrent generateSpeech calls over one temporary directory tree
SpecSpeechInit == RateQuiet /\ QueueInit /\ SpeechInit /\ MoreInit
SpecSpeech == SpecSpeechInit /\ [][SpeechNext]_vars

\* the worker on a backlog with a job of an unknown kind, in a chat that
\* accepts or rejects the edits of the status messages
SpecForeignInit ==
    /\ RateQuiet /\ ForeignInit /\ SpeechInit
    /\ RetryInit /\ StatusInit /\ PrefsInit /\ ChunksQuiet /\ InvitesInit
    /\ LateInit
SpecForeign == SpecForeignInit /\ [][ForeignNext]_vars

\* the preference commands and the jobs of the owners
SpecPrefsInit == RateQuiet /\ QueueInit /\ SpeechInit /\ MoreInit
SpecPrefs == SpecPrefsInit /\ [][PrefsNext]_vars

\* splitTextIntoChunks on every text up to MaxTextLen characters
SpecChunksInit ==
    /\ RateQuiet /\ QueueInit /\ SpeechInit
    /\ RetryInit /\ StatusQuiet /\ PrefsInit /\ ChunksInit /\ InvitesInit
    /\ LateInit
SpecChunks == SpecChunksInit /\ [][ChunksNext]_vars

\* overlapping calls of the invite functions
SpecInvitesInit == RateQuiet /\ QueueInit /\ SpeechInit /\ MoreInit
SpecInvites == SpecInvitesInit /\ [][InvitesNext]_vars

\* the rate keys over minutes and days
SpecExpiryInit == RateQuiet /\ QueueInit /\ SpeechInit /\ MoreInit
SpecExpiry == SpecExpiryInit /\ [][ExpiryNext]_vars

\* the updates Telegram posts to the webhook, some of them more than once
SpecUpdatesInit == RateQuiet /\ QueueInit /\ SpeechInit /\ MoreInit
SpecUpdates == SpecUpdatesInit /\ [][UpdatesNext]_vars

\* one request to the speech endpoint, by either generation of the service
SpecRetryInit == RateQuiet /\ QueueInit /\ SpeechInit /\ MoreInit
SpecRetry == SpecRetryInit /\ [][RetryNext]_vars

-----------------------------------------------------------------------------
(* Claims about admission control, checked under Spec *)

\* C1: checkRateLimit answers allowed=false, reason minute_limit exactly when
\* the owner's incrementUsage calls of the current minute bucket number 10 or
\* more (the 10th request passes, the 11th is blocked), whatever the day
\* counter and the notified marker hold.
C1_MinuteLimitExact ==
    \A r \in Slots :
        /\ req[r].pc # "idle" =>
            (req[r].result = ResultMinuteLimit
                <=> req[r].seen >= RATE_LIMIT_REQUESTS_PER_MINUTE)
        /\ req[r].pc = "blocked" <=> req[r].result = ResultMinuteLimit
        /\ req[r].pc \in {"notice", "mark", "incr", "next"} => req[r].result.allowed

\* the 11th request of a bucket being turned away
C1_Witness ==
    \E r \in Slots :
        /\ req[r].pc = "blocked"
        /\ req[r].seen = RATE_LIMIT_REQUESTS_PER_MINUTE
        /\ dayStore[req[r].chatId][req[r].dateKey] > RATE_LIMIT_CHARS_PER_DAY

\* C2: under concurrent admission of one owner's requests the minute counter
\* of a bucket never exceeds 10 (at most 10 requests are admitted).
C2_MinuteCounterAtMostLimit ==
    \A o \in Owners : \A m \in MinuteKeys :
        /\ minStore[o][m] <= RATE_LIMIT_REQUESTS_PER_MINUTE
        /\ calls[o][m] <= RATE_LIMIT_REQUESTS_PER_MINUTE

\* C10: the daily-budget notice is sent to an owner at most once in a day,
\* for any interleaving of that owner's admission requests.
C10_NoticeAtMostOncePerDay ==
    \A o \in Owners : \A d \in DateKeys : notices[o][d] <= 1

\* the request in slot r takes a step of the moves given
Steps(r, pcs) == req[r].pc \in pcs /\ req'[r] # req[r]

\* C11: once markNotified has set the marker of an owner's day bucket, a
\* checkRateLimit of that owner and day that exceeds the budget returns
\* shouldNotify=false, the marker stays set, and only the marker of the
\* request's own day counts: with the marker of the day before set and the
\* one of today unset, shouldNotify is true again.
C11_NotifiedMarkerPerDay ==
    [][/\ \A r \in Slots :
            Steps(r, {"getNotified"}) =>
                /\ req'[r].result.reason = "day_limit"
                /\ req'[r].result.shouldNotify = "false"
                    <=> notifiedStore[req[r].chatId][req[r].dateKey] # Null
       /\ \A o \in Owners : \A d \in DateKeys :
            notifiedStore[o][d] # Null => notifiedStore'[o][d] # Null]_vars

\* an owner who was notified the day before got the notice again today, and
\* the owner's next request over the budget today is not to be notified
C11_Witness ==
    \E r \in Slots :
        /\ req[r].pc = "incr" /\ req[r].dateKey = 1
        /\ req[r].result = ResultDayLimit(1)
        /\ notices[req[r].chatId][1] = 1
        /\ notifiedStore[req[r].chatId][0] # Null
        /\ notifiedStore[req[r].chatId][1] # Null

\* C12: with the minute counter below 10, checkRateLimit returns allowed=true
\* whatever the day counter holds, with reason day_limit exactly when
\* dayCount + charCount > 20,000; a request landing on 20,000 exactly gets
\* plain allowed=true without reason and without shouldNotify.
C12_DayLimitNeverBlocks ==
    [][\A r \in Slots :
        /\ Steps(r, {"getDay"}) =>
            LET dayCount == dayStore[req[r].chatId][req[r].dateKey]
                total == (IF dayCount = Null THEN 0 ELSE dayCount) + req[r].charCount
            IN IF total > RATE_LIMIT_CHARS_PER_DAY
               THEN req'[r].pc = "getNotified"
               ELSE req'[r].pc = "incr" /\ req'[r].result = ResultAllowed
        /\ Steps(r, {"getNotified"}) =>
            /\ req'[r].result.allowed /\ req'[r].result.reason = "day_limit"
            /\ req'[r].pc \in {"notice", "incr"}
        /\ (req[r].pc = "idle" /\ req'[r].pc = "getDay") =>
            req'[r].seen < RATE_LIMIT_REQUESTS_PER_MINUTE
        /\ (req[r].pc = "idle" /\ req'[r].pc = "blocked") =>
            req'[r].seen >= RATE_LIMIT_REQUESTS_PER_MINUTE]_vars

\* a request that takes the day counter to 20,000 exactly was allowed
\* without a reason
C12_Witness ==
    \E r \in Slots :
        /\ req[r].pc = "incr" /\ req[r].result = ResultAllowed
        /\ dayStore[req[r].chatId][req[r].dateKey] + req[r].charCount
                = RATE_LIMIT_CHARS_PER_DAY

\* C15: checkRateLimit only reads: over each of its three reads, whatever it
\* returns, the minute counters, day counters and notified markers of all
\* owners stay as they are.
C15_CheckLeavesStore ==
    [][\A r \in Slots :
        Steps(r, {"idle", "getDay", "getNotified"}) =>
            UNCHANGED <<minStore, dayStore, notifiedStore>>]_vars

\* one request was turned away with minute_limit while for another one
\* checkRateLimit returned day_limit
C15_Witness ==
    \E q, r \in Slots :
        /\ req[q].pc = "blocked"
        /\ req[r].pc = "notice" /\ req[r].result.reason = "day_limit"

\* C16: the minute counter, day counter and notified marker of an owner
\* change only in a step of incrementUsage or markNotified of a request of
\* that owner, however the requests of the owners interleave.
C16_OwnersIsolated ==
    [][\A o \in Owners :
        (minStore'[o] # minStore[o] \/ dayStore'[o] # dayStore[o]
            \/ notifiedStore'[o] # notifiedStore[o]) =>
        \E r \in Slots : req[r].chatId = o /\ Steps(r, {"mark", "incr"})]_vars

\* an owner's request is between its reads while the other owner's counters
\* were raised and marker was set
C16_Witness ==
    \E r \in Slots : \E o \in Owners :
        /\ req[r].pc = "getNotified" /\ req[r].chatId # o
        /\ notifiedStore[o][dayNow] # Null /\ dayStore[o][dayNow] > 20000
        /\ notifiedStore[req[r].chatId][dayNow] = Null

\* C33: inside one bucket, each incrementUsage(owner, c) raises the owner's
\* minute counter by exactly 1 and the day counter by exactly c, and no other
\* operation (checkRateLimit, markNotified, the replies) changes them: after
\* k calls getUsage returns k and the sum of the c values; no stored counter
\* ever decreases.
C33_CountersFollowIncrements ==
    /\ [](\A o \in Owners : getUsage(o).minuteRequests = calls[o][minuteNow])
    /\ [][\A o \in Owners :
            /\ \A m \in MinuteKeys : minStore'[o][m] >= minStore[o][m]
            /\ \A d \in DateKeys : dayStore'[o][d] >= dayStore[o][d]
            /\ (minuteNow' = minuteNow /\ dayNow' = dayNow) =>
                 IF \E r \in Slots : req[r].chatId = o /\ Steps(r, {"incr"})
                 THEN \E r \in Slots :
                        /\ req[r].chatId = o /\ Steps(r, {"incr"})
                        /\ getUsage(o)'.minuteRequests
                             = getUsage(o).minuteRequests + 1
                        /\ getUsage(o)'.dayChars
                             = getUsage(o).dayChars + req[r].charCount
                 ELSE getUsage(o)' = getUsage(o)]_vars

\* an owner with nothing in the store made two requests, of 200 and of 500
\* characters, and getUsage returns 2 and 700
C33_Witness ==
    \E o \in Owners :
        /\ calls[o][minuteNow] = 2
        /\ getUsage(o) = [minuteRequests |-> 2, dayChars |-> 700]

-----------------------------------------------------------------------------
(* Claims about the buckets of the counters, checked under SpecRollover *)

\* C32: the minute counter of bucket m has no effect on checks made in
\* bucket m+1: a request is turned away exactly when the owner's
\* incrementUsage calls of the bucket of the check number 10 or more, so
\* right after the rollover an owner that was blocked in bucket m is allowed
\* again; and with sequential admission at most 2 x 10 requests of one owner
\* are admitted across two adjacent minute buckets.
C32_BucketsDoNotInteract ==
    /\ [](\A o \in Owners :
            calls[o][0] + calls[o][1] <= 2 * RATE_LIMIT_REQUESTS_PER_MINUTE)
    /\ [][\A r \in Slots :
            (req[r].pc = "idle" /\ req'[r].pc # "idle") =>
                (req'[r].pc = "blocked" <=>
                    calls[req'[r].chatId][minuteNow]
                        >= RATE_LIMIT_REQUESTS_PER_MINUTE)]_vars

\* 10 requests were admitted in each of the two buckets, the second 10 after
\* the rollover, and the next request is turned away
C32_Witness ==
    \E r \in Slots :
        /\ minuteNow = 1
        /\ req[r].pc = "blocked"
        /\ calls[req[r].chatId][0] = RATE_LIMIT_REQUESTS_PER_MINUTE
        /\ calls[req[r].chatId][1] = RATE_LIMIT_REQUESTS_PER_MINUTE
        /\ minStore[req[r].chatId][0] = RATE_LIMIT_REQUESTS_PER_MINUTE

-----------------------------------------------------------------------------
(* Claims about admission and the handlers behind it, checked under SpecAdmit *)

\* C13: a request that checkRateLimit answers with minute_limit ends with the
\* reply: over its check and its reply no counter and no marker changes, no
\* notice is sent, and no handler is entered, no status message posted, no
\* job added and no synthesis started for it.
C13_BlockedBeforeEnqueue ==
    [][\A r \in Slots :
        ((req[r].pc = "idle" /\ req'[r].pc = "blocked") \/ Steps(r, {"blocked"})) =>
            /\ req[r].pc = "blocked" => req'[r] = IdleReq
            /\ req'[r].counted = 0
            /\ UNCHANGED <<minStore, dayStore, notifiedStore, calls, notices,
                           admitted>>
            /\ UNCHANGED <<handler, jobs, msgs, nextJob, nextMsg, gs>>]_vars

\* a request is being turned away with minute_limit while the job of an
\* earlier request of the same owner waits in the queue
C13_Witness ==
    \E r \in Slots : \E j \in JobIds :
        /\ req[r].pc = "blocked" /\ req[r].seen = RATE_LIMIT_REQUESTS_PER_MINUTE
        /\ jobs[j].state = "waiting"
        /\ admitted = 1 /\ started = 2

\* C14: incrementUsage runs only for a request that is accepted for
\* processing, and once: an update whose handler turns it away with a usage
\* or format reply has raised no counter, an update whose handler enqueues a
\* job has raised the minute counter by 1.
C14_CountedOnlyWhenAccepted ==
    /\ handler.pc = "reject" => handler.counted = 0
    /\ handler.pc \in {"post", "add"} => handler.counted = 1

-----------------------------------------------------------------------------
(* Claims about the queue and the worker, checked under SpecQueue *)

\* C17: every job placed in the queue belongs to a request that passed the
\* rate limit check and was counted by incrementUsage: the jobs ever added
\* never outnumber the admitted requests.
C17_JobsWithinAdmitted == nextJob - 1 <= admitted

Terminal(j) == jobs[j].state \in {"completed", "failed"}

C4_DeleteBeforeFinalMessage ==
    \A j \in JobIds :
        audioSent[j] + errorSent[j] > 0 => jobs[j].statusMsgId \in delIssued

\* one job delivered its audio and another one got its error message
C4_Witness ==
    \E j, k \in JobIds :
        /\ audioSent[j] = 1 /\ jobs[j].state = "completed"
        /\ errorSent[k] = 1 /\ jobs[k].state = "failed"

\* the status messages job j is answerable for: posted for it or by it, not
\* handed to a follow-up job, and with no delete issued yet
OpenStatus(j) == {m \in MsgIds : msgs[m] # "none" /\ msgJob[m] = j /\ m \notin delIssued}

\* C5: a job has at most one live status message at any moment, and when a
\* job of any kind ends, at any failure point, no status message posted for it
\* or by it is left undeleted unless a follow-up job that was enqueued took it
\* over.  (A message counts as cleaned up as soon as its delete was issued.)
C5_NoStaleStatus ==
    \A j \in JobIds :
        /\ Cardinality(OpenStatus(j)) <= 1
        /\ Terminal(j) => OpenStatus(j) = {}

\* C18: at most 3 jobs are being processed at any time, and a worker slot
\* changes hands only by taking a waiting job when it is free and by giving
\* up a job that has reached Succeeded or Failed.
C18_AtMostThreeClaimed ==
    [][/\ Cardinality({j \in JobIds : jobs'[j].state = "active"}) <= 3
       /\ Cardinality({j \in JobIds : jobs'[j].state = "active"})
            = Cardinality({w \in DOMAIN slot' : slot'[w] # 0})
       /\ \A w \in DOMAIN slot :
            slot'[w] # slot[w] =>
                \/ slot[w] = 0 /\ jobs[slot'[w]].state = "waiting"
                \/ /\ slot'[w] = 0
                   /\ jobs'[slot[w]].state \in {"completed", "failed"}]_vars

\* three jobs are being processed, the fourth one of the backlog among them
\* in the slot of a job that has ended
C18_Witness ==
    /\ Cardinality({j \in JobIds : jobs[j].state = "active"}) = 3
    /\ \E j \in JobIds : Terminal(j)

-----------------------------------------------------------------------------
(* Claims about generateSpeech, checked under SpecSpeech *)

\* the call is inside try { ... } finally { ... } and owns a scratch directory
InTry(c) == gs[c].pc \notin {"idle", "single", "done"}

IndexOrder(n) == [k \in 1..n |-> k - 1]

C7_ScratchDirsDistinct ==
    \A b, c \in Calls :
        (b # c /\ InTry(b) /\ InTry(c)) => gs[b].tempDir # gs[c].tempDir

\* C8: within one call the synthesis requests are issued in chunk index order
\* 0..N-1, the request for chunk i+1 only after chunk i was received and
\* written, and never two at the same time.
C8_ChunksSequential ==
    \A c \in Calls :
        /\ gs[c].issued = IndexOrder(Len(gs[c].issued))
        /\ Len(gs[c].issued) <= Len(gs[c].audioFiles) + 1
        /\ Cardinality(gs[c].inflight) <= 1

\* the request for the last chunk of a call is in flight, the chunks before
\* it are on disk
C8_Witness ==
    \E c \in Calls :
        /\ gs[c].n = MaxChunks /\ gs[c].inflight = {MaxChunks - 1}
        /\ Len(gs[c].audioFiles) = MaxChunks - 1
        /\ Len(gs[c].issued) = MaxChunks

\* C9: the manifest the concatenation tool is given for a call lists that
\* call's chunk files in index order 0..N-1, and the audio the call is about
\* to return is the concatenation of its chunk audios in index order.
C9_ManifestInIndexOrder ==
    \A c \in Calls :
        /\ gs[c].manifest # NoManifest =>
            gs[c].manifest = [k \in 1..gs[c].n |-> ChunkFile(k - 1)]
        /\ (gs[c].pc = "finally" /\ ~gs[c].failed) =>
            gs[c].audio = [k \in 1..gs[c].n |-> Audio(c, k - 1)]

Synthesized(c) == gs[c].i + (IF gs[c].pc = "write" THEN 1 ELSE 0)

\* C37: in a multi-chunk call the progress update that reports k/total is
\* issued only after chunk k has completed synthesis, and the values of k
\* reported for one call never decrease.
C37_ProgressAfterChunkDone ==
    [][\A c \in Calls :
        (gs'[c].progress # gs[c].progress /\ gs'[c].pc # "done") =>
            LET k == gs'[c].progress[Len(gs'[c].progress)]
            IN  /\ k <= Synthesized(c)
                /\ Len(gs[c].progress) > 0 =>
                      k >= gs[c].progress[Len(gs[c].progress)]]_vars

-----------------------------------------------------------------------------
(* Claims about the retries of one synthesis request, checked under SpecRetry *)

\* the terminal failures: malformed input, bad credentials, exhausted quota
Terminal4xx == {400, 401, 429}

\* C21: a chunk synthesis is re-attempted only after a transient failure (a
\* 5xx response or a timeout), for at most 3 attempts in total; a 4xx
\* failure is surfaced after a single attempt with no retry: no request
\* follows a 4xx response, and a finished call has audio or an error.
C21_RetryOnlyTransient ==
    /\ syn.attempt <= 3
    /\ \A i \in 1..Len(syn.log) :
           syn.log[i] \in Terminal4xx => /\ i = Len(syn.log)
                                         /\ syn.pc = "done"
                                         /\ syn.result = "error"
    /\ syn.pc = "done" => syn.result \in {"audio", "error"}

-----------------------------------------------------------------------------
(* Claims about jobs of an unknown kind, checked under SpecForeign *)

\* C22: a dequeued job whose kind is none of tts, ttsai, document, voice ends
\* in terminal failure: once it has left the worker it is failed, not
\* completed, and the deletion of its status message was issued.
C22_UnknownKindFails ==
    \A j \in JobIds :
        (jobs[j].type = FutureType /\ jobs[j].state \in {"completed", "failed"})
            => /\ jobs[j].state = "failed"
               /\ jobs[j].statusMsgId \in delIssued

\* the processor of job j takes a step from one of the positions pcs
Moves(j, pcs) == jobs[j].pc \in pcs /\ jobs'[j] # jobs[j]

\* C23: a failure of a status-message update or delete never changes a job's
\* outcome: no status call throws out of the processor, and after
\* deleteStatus the job goes on to its delivery whether the delete worked or
\* not. A failure of the audio delivery makes the job failed by the error
\* path: the catch block issues the status delete, then the error message,
\* then the job is failed; a delivery that worked completes the job.
C23_StatusBestEffortSendFatal ==
    [][\A j \in JobIds :
        /\ statusThrew' = {}
        /\ Moves(j, {"del"}) => jobs'[j].pc \in {"send", "transcript"}
        /\ Moves(j, {"send"}) =>
              \/ /\ audioSent'[j] = audioSent[j] + 1
                 /\ jobs'[j].state = "completed"
              \/ /\ audioSent'[j] = audioSent[j]
                 /\ jobs'[j].state = "active" /\ jobs'[j].pc = "catchDel"
        /\ Moves(j, {"catchDel"}) =>
              /\ jobs'[j].pc = "catchMsg"
              /\ jobs[j].statusMsgId # 0 => jobs[j].statusMsgId \in delIssued'
        /\ Moves(j, {"catchMsg"}) =>
              /\ jobs'[j].state = "failed"
              /\ audioSent'[j] = 0]_vars

\* a document job delivered its audio although every edit of its status
\* message was rejected and the delete of the status message failed, and a
\* job whose delivery failed is failed with its error message sent
C23_Witness ==
    /\ tgEdits = "failing"
    /\ \E j \in JobIds :
        /\ jobs[j].type = "document" /\ jobs[j].state = "completed"
        /\ audioSent[j] = 1
        /\ jobs[j].statusMsgId \in delIssued /\ msgs[jobs[j].statusMsgId] = "live"
    /\ \E j \in JobIds :
        /\ jobs[j].type = "tts" /\ jobs[j].state = "failed"
        /\ errorSent[j] = 1
        /\ msgs[jobs[j].statusMsgId] = "deleted"

\* the chunk progress texts among the edits of job j's status message
ProgressEdits(j) == SelectSeq(statusTexts[j].texts, LAMBDA p : p.k > 0)

\* C36, as stated: no chunk progress text is written to the status message
\* of a job whose text yields a single chunk, and such a job goes from its
\* queued status straight to the status delete and the audio delivery: its
\* status message is never edited.
C36_SingleChunkStraightToDelete ==
    \A j \in JobIds :
        statusTexts[j].total = 1 => statusTexts[j].texts = <<>>

\* C36, corrected: no chunk progress text is written to the status message
\* of a job whose text yields a single chunk (progress texts are written
\* only when total > 1); a single-chunk tts or ttsai job has no edit of its
\* status message at all, while a single-chunk document job has exactly the
\* three texts of processDocument before the status delete.
C36_NoProgressTextForSingleChunk ==
    \A j \in JobIds :
        /\ \A i \in 1..Len(ProgressEdits(j)) :
              /\ ProgressEdits(j)[i].total > 1
              /\ ProgressEdits(j)[i].total = statusTexts[j].total
        /\ statusTexts[j].total = 1 =>
              /\ ProgressEdits(j) = <<>>
              /\ jobs[j].type \in {"tts", "ttsai"} => statusTexts[j].texts = <<>>
              /\ jobs[j].type = "document" =>
                    statusTexts[j].texts \in {<<>>, StageTexts}

\* a tts job of one chunk delivered its audio with no edit of its status
\* message, and a document job of one chunk did after its three texts
C36_Witness ==
    /\ tgEdits = "ok"
    /\ \E j \in JobIds :
        /\ jobs[j].type = "tts" /\ statusTexts[j].total = 1
        /\ jobs[j].state = "completed" /\ audioSent[j] = 1
        /\ statusTexts[j].texts = <<>>
    /\ \E j \in JobIds :
        /\ jobs[j].type = "document" /\ statusTexts[j].total = 1
        /\ jobs[j].state = "completed" /\ audioSent[j] = 1
        /\ statusTexts[j].texts = StageTexts

-----------------------------------------------------------------------------
(* Claims about the voice job, checked under SpecQueue *)

\* C38: a voice job that transcribes successfully deletes its own status
\* message, sends the transcription, posts one new status message and
\* enqueues exactly one follow-up job of kind ttsai that carries the new
\* status handle, in this order, and completes by that; no audio is
\* synthesized or sent inside the voice job itself.
C38_VoiceHandsOver ==
    /\ [](\A j \in JobIds :
            jobs[j].type = "voice" =>
                audioSent[j] = 0 /\ jobs[j].pc \notin {"doc", "gen", "send"})
    /\ [][\A j \in JobIds :
            jobs[j].type = "voice" =>
            /\ Moves(j, {"transcribe"}) => jobs'[j].pc \in {"del", "catchDel"}
            /\ Moves(j, {"del"}) =>
                  /\ jobs'[j].pc = "transcript"
                  /\ jobs[j].statusMsgId # 0 =>
                        jobs[j].statusMsgId \in delIssued'
            /\ Moves(j, {"transcript"}) => jobs'[j].pc \in {"post", "catchDel"}
            /\ (Moves(j, {"post"}) /\ jobs'[j].pc # "catchDel") =>
                  /\ jobs'[j].pc = "add" /\ jobs'[j].newStatus = nextMsg
                  /\ nextMsg' = nextMsg + 1
                  /\ msgs[nextMsg] = "none" /\ msgs'[nextMsg] = "live"
            /\ (Moves(j, {"add"}) /\ jobs'[j].pc # "catchDel") =>
                  /\ jobs'[j].state = "completed"
                  /\ nextJob' = nextJob + 1
                  /\ jobs[nextJob] = NoJob
                  /\ jobs'[nextJob].state = "waiting"
                  /\ jobs'[nextJob].type = "ttsai"
                  /\ jobs'[nextJob].statusMsgId = jobs[j].newStatus
                  /\ \A i \in JobIds \ {j, nextJob} : jobs'[i] = jobs[i]
            /\ (jobs'[j].state = "completed" /\ jobs[j].state # "completed") =>
                  Moves(j, {"add"})]_vars

\* a voice job has completed with its status message deleted, and the
\* follow-up job it enqueued waits with the new status message
C38_Witness ==
    \E j, f \in JobIds :
        /\ jobs[j].type = "voice" /\ jobs[j].state = "completed"
        /\ msgs[jobs[j].statusMsgId] = "deleted" /\ audioSent[j] = 0
        /\ jobs[f].type = "ttsai" /\ jobs[f].state = "waiting"
        /\ jobs[f].statusMsgId # jobs[j].statusMsgId
        /\ msgs[jobs[f].statusMsgId] = "live" /\ msgJob[jobs[f].statusMsgId] = f

-----------------------------------------------------------------------------
(* Claims about the preferences a job is spoken with, checked under SpecPrefs *)

\* C24: the voice, speed and style used for a job are the owner's
\* preferences as they were when the job was enqueued.
C24_PrefsAsAtEnqueue ==
    \A j \in PrefJobs :
        pjobs[j].state \in {"speaking", "sent"} =>
            pjobs[j].used = pjobs[j].atEnqueue

\* C39: all chunks of one job are synthesized with the same voice, speed and
\* style values: the preferences are read once when processing of the job
\* starts and are not read again, so a preference change that lands between
\* two chunks of a job cannot give the chunks different voices.
C39_ChunksShareVoice ==
    \A j \in PrefJobs :
        \A i \in 1..Len(pjobs[j].spoken) : pjobs[j].spoken[i] = pjobs[j].used

\* the owner changed the voice between the first and the last chunk of a
\* job, and the last chunk was spoken with the voice of the first
C39_Witness ==
    \E j \in PrefJobs :
        /\ pjobs[j].state = "sent" /\ Len(pjobs[j].spoken) > 1
        /\ pjobs[j].spoken[1] = pjobs[j].spoken[Len(pjobs[j].spoken)]
        /\ pjobs[j].stored[1] = pjobs[j].spoken[1].voice
        /\ pjobs[j].stored[Len(pjobs[j].stored)] # pjobs[j].stored[1]

-----------------------------------------------------------------------------
(* Claims about splitTextIntoChunks, checked under SpecChunks *)

\* C25: every chunk returned by splitTextIntoChunks has a length of at most
\* the limit, and the limit of the service, 3800, is below the provider's
\* ceiling of 4096 characters.
C25_ChunkWithinLimit ==
    /\ maxChunkLength < 4096
    /\ split => \A i \in 1..Len(chunks) : Len(chunks[i]) <= ChunkLimit

\* a text longer than the limit was split in two, the first chunk as long
\* as the limit allows
C25_Witness ==
    /\ split /\ Len(text) > ChunkLimit /\ Len(chunks) = 2
    /\ Len(chunks[1]) = ChunkLimit
    /\ Len(chunks[2]) = MaxTextLen - ChunkLimit

\* C26: for every text no longer than the limit, splitTextIntoChunks returns
\* exactly one chunk, and that chunk is the text with its leading and
\* trailing whitespace trimmed.
C26_ShortTextOneTrimmedChunk ==
    (split /\ Len(text) <= ChunkLimit) => chunks = <<Trim(text)>>

\* the characters of s that are not whitespace
NonWs(s) == SelectSeq(s, LAMBDA c : c \notin WhiteSpace)

\* the words of s: its maximal runs of characters that are not whitespace
RECURSIVE WordsFrom(_, _, _)
WordsFrom(s, word, acc) ==
    IF Len(s) = 0
    THEN IF Len(word) > 0 THEN Append(acc, word) ELSE acc
    ELSE IF s[1] \in WhiteSpace
    THEN WordsFrom(Tail(s), <<>>, IF Len(word) > 0 THEN Append(acc, word) ELSE acc)
    ELSE WordsFrom(Tail(s), Append(word, s[1]), acc)

Words(s) == WordsFrom(s, <<>>, <<>>)

\* the chunks joined with single spaces
RECURSIVE JoinSpaced(_)
JoinSpaced(cs) ==
    IF Len(cs) = 0 THEN <<>>
    ELSE IF Len(cs) = 1 THEN cs[1]
    ELSE cs[1] \o <<" ">> \o JoinSpaced(Tail(cs))

RECURSIVE SumLen(_)
SumLen(cs) == IF Len(cs) = 0 THEN 0 ELSE Len(cs[1]) + SumLen(Tail(cs))

\* C27: joining the chunks with single spaces and normalizing whitespace
\* reproduces the words of the text in order, none lost, duplicated or
\* reordered, and the sum of the chunk lengths is at most the text's length.
C27_WordsPreserved ==
    split => /\ Words(JoinSpaced(chunks)) = Words(text)
             /\ SumLen(chunks) <= Len(text)

\* the chunks cs, in order, are t with whitespace removed only before, between
\* and after them
RECURSIVE Covers(_, _)
Covers(cs, t) ==
    IF Len(cs) = 0 THEN NonWs(t) = <<>>
    ELSE \E k \in 0..Len(t) :
            /\ \A i \in 1..k : t[i] \in WhiteSpace
            /\ k + Len(cs[1]) <= Len(t)
            /\ SubSeq(t, k + 1, k + Len(cs[1])) = cs[1]
            /\ Covers(Tail(cs), SubSeq(t, k + Len(cs[1]) + 1, Len(t)))

\* C28: the chunks of a text, taken in index order, exactly cover it:
\* concatenating them gives the text with only whitespace removed at the
\* chunk boundaries, so every non-whitespace character of the text appears
\* exactly once and in its original order.
C28_ChunksCoverText ==
    split => /\ Covers(chunks, text)
             /\ NonWs(JoinSpaced(chunks)) = NonWs(text)

\* a text was split in three at breaks, and whitespace was dropped at the
\* boundaries
C28_Witness ==
    /\ split /\ Len(chunks) >= 2
    /\ SumLen(chunks) < Len(text)
    /\ \E i \in 1..Len(chunks) : Len(chunks[i]) < ChunkLimit - 1
    /\ NonWs(text) # <<>> /\ Len(NonWs(text)) < Len(text)

\* the cut of the first round as the priority list gives it: after the last
\* paragraph break if it lies past half of the window, otherwise after the
\* last sentence end of the window, otherwise after its last clause break,
\* otherwise at the limit
CutByPriority(remaining, limit) ==
    LET segment == Slice(remaining, 0, limit)
        paragraphBreak == LastIndexOf(segment, <<"\n", "\n">>)
        sentenceEnd == MaxOf({LastIndexOf(segment, <<".", " ">>),
                              LastIndexOf(segment, <<"!", " ">>),
                              LastIndexOf(segment, <<"?", " ">>)})
        clauseBreak == MaxOf({LastIndexOf(segment, <<",", " ">>),
                              LastIndexOf(segment, <<";", " ">>),
                              LastIndexOf(segment, <<":", " ">>)})
    IN  IF PastHalf(paragraphBreak, limit) THEN paragraphBreak + 2
        ELSE IF sentenceEnd >= 0 THEN sentenceEnd + 2
        ELSE IF clauseBreak >= 0 THEN clauseBreak + 2
        ELSE limit

\* C31: when the remaining text is longer than the limit, the cut is chosen
\* inside the first limit characters in this priority: after the last
\* paragraph break if that break lies past the 50% mark of the window;
\* otherwise after the last sentence terminator in the window; otherwise
\* after the last clause separator; otherwise exactly at the limit.
C31_CutByPriority ==
    (split /\ Len(text) > ChunkLimit) =>
        LET cut == CutByPriority(text, ChunkLimit)
        IN  chunks = SelectSeq(SplitLoop(Rest(text, cut),
                                         <<Trim(Slice(text, 0, cut))>>,
                                         ChunkLimit),
                               LAMBDA c : Len(c) > 0)

-----------------------------------------------------------------------------
(* Claims about the invites, checked under SpecInvites *)

\* C29: an invite created with k uses leads to at most k successful
\* redeemInvite calls under any interleaving of concurrent redemptions, and
\* a redeemInvite that returns false has created no user.
C29_AtMostKRedemptions ==
    /\ \A c \in Codes : redeemed[c] <= issued[c].uses
    /\ \A k \in InviteCalls :
          icalls[k].result = "false" => ~icalls[k].createdUser

\* every call of the invite functions has returned
Returned == \A k \in InviteCalls : icalls[k].pc \in {"idle", "done"}

\* C30: after any sequence of createInvite, redeemInvite and revokeInvite
\* calls, listInvites(creator) returns exactly the invites that creator made
\* and that still exist; a code whose last use was consumed, or that its
\* creator revoked, is absent from the records and from the creator's index;
\* no code is ever deleted by the revoke of another chat.
C30_ListIsCreatorsInvites ==
    Returned =>
        /\ \A o \in Owners :
              listInvites(o) = {c \in Codes : /\ ~IsNull(getInvite(c))
                                              /\ issued[c].createdBy = o}
        /\ \A c \in Codes :
              gone[c] \in {"consumed", "revoked"} =>
                  /\ IsNull(getInvite(c))
                  /\ c \notin invIndex[issued[c].createdBy]
        /\ \A c \in Codes : gone[c] # "revoked by another"

\* one code was used up, the other was redeemed once and is still listed
\* with one use left
C30_Witness ==
    /\ Returned
    /\ \E c, d \in Codes, o \in Owners :
        /\ gone[c] = "consumed" /\ redeemed[c] = 1
        /\ gone[d] = "no" /\ issued[d].createdBy = o /\ issued[d].uses = 2
        /\ redeemed[d] = 1 /\ getInvite(d).usesLeft = 1
        /\ listInvites(o) = {d}

-----------------------------------------------------------------------------
(* Claims about the expiry of the rate keys, checked under SpecExpiry *)

\* C34: no counter or marker expires while the bucket it bounds is still
\* current: a minute counter written by incrementUsage stays readable, with
\* all its increments, for the rest of its 60-second bucket (expiry 120 s
\* after the last increment), and a day counter or notified marker stays
\* readable for the rest of its calendar day (expiry 48 h after the write).
C34_KeysOutliveBuckets ==
    /\ incs["min"].bucket = MinuteKeyAt(now) =>
          TtlGet("min", MinuteKeyAt(now)) = incs["min"].writes
    /\ incs["day"].bucket = DateKeyAt(now) =>
          TtlGet("day", DateKeyAt(now)) = incs["day"].sum
    /\ incs["notified"].bucket = DateKeyAt(now) =>
          TtlGet("notified", DateKeyAt(now)) = 1
    /\ \A k \in ttlStore :
          k.bucket = incs[k.kind].bucket =>
              k.exp = incs[k.kind].at + (IF k.kind = "min" THEN 120
                                         ELSE 48 * 60 * 60)

\* the marker set half a day ago on this day is read, and so is the minute
\* counter written half a minute ago in this minute
C34_Witness ==
    /\ incs["notified"].bucket = DateKeyAt(now)
    /\ now >= incs["notified"].at + HalfDay
    /\ TtlGet("notified", DateKeyAt(now)) = 1
    /\ incs["min"].bucket = MinuteKeyAt(now)
    /\ now = incs["min"].at + HalfMinute
    /\ TtlGet("min", MinuteKeyAt(now)) = 1
    /\ TtlGet("day", DateKeyAt(now)) = 500


-----------------------------------------------------------------------------
(* Claims about the webhook endpoint, checked under SpecUpdates *)

\* C40: a Telegram update with a given update_id is handed to the bot
\* handlers at most once, even when the same update is delivered again while
\* its first delivery is still being handled or after older ids were evicted
\* from the processed set; an update whose handling threw is not recorded as
\* processed.
C40_HandedAtMostOnce ==
    /\ \A u \in UpdateIds : u \notin threw => handed[u] <= 1
    /\ \A u \in UpdateIds : handed[u] = 1 /\ u \in threw => ~HasUpdate(u)

====
